---------------------------- MODULE Spec2Model ----------------------------
(***************************************************************************)
(* Model of the PowerPoint -> SOP document pipeline of src/app.py:         *)
(* DocumentProcessor.process_batch / process_single_file /                 *)
(* _parse_claude_response, with the Python string and json operations the  *)
(* Response Interpreter relies on.                                         *)
(*                                                                         *)
(* Text is a sequence of one-character strings.  Python values are tagged  *)
(* records [t |-> type, v |-> payload]; the payload is always a sequence.  *)
(***************************************************************************)
EXTENDS Integers, Sequences, FiniteSets, TLC

(***************************************************************************)
(* Bounds and scales of the model.                                         *)
(***************************************************************************)
MaxFiles == 2          \* longest batch
MaxTime == 3           \* the clock runs over MaxTime ticks from StartTime
TicksPerSecond == 2    \* clock resolution finer than strftime's %S
SecondsPerDay == 2     \* scaled calendar: seconds in one %Y%m%d value
MaxSlides == 2         \* most slides in a deck
MaxSeed == 1           \* hash seeds 0..MaxSeed

(***************************************************************************)
(* Python str helpers.                                                     *)
(***************************************************************************)
Whitespace == {" ", "\n", "\t"}

StartsWith(s, p) == Len(s) >= Len(p) /\ SubSeq(s, 1, Len(p)) = p

EndsWith(s, p) == Len(s) >= Len(p) /\ SubSeq(s, Len(s) - Len(p) + 1, Len(s)) = p

\* s[n:]
DropFirst(s, n) == IF n >= Len(s) THEN << >> ELSE SubSeq(s, n + 1, Len(s))

\* s[:-n]   (n > 0)
DropLast(s, n) == IF n >= Len(s) THEN << >> ELSE SubSeq(s, 1, Len(s) - n)

RECURSIVE LStripFrom(_, _)
\* index of the first character at or after i that is not whitespace
LStripFrom(s, i) == IF i <= Len(s) /\ s[i] \in Whitespace THEN LStripFrom(s, i + 1) ELSE i

RECURSIVE RStripFrom(_, _)
\* index of the last character at or before i that is not whitespace
RStripFrom(s, i) == IF i >= 1 /\ s[i] \in Whitespace THEN RStripFrom(s, i - 1) ELSE i

\* str.strip()
Strip(s) == SubSeq(s, LStripFrom(s, 1), RStripFrom(s, Len(s)))

RECURSIVE FindChar(_, _, _)
\* index of the first c at or after i, Len(s) + 1 if there is none
FindChar(s, c, i) == IF i <= Len(s) /\ s[i] # c THEN FindChar(s, c, i + 1) ELSE i

\* str.split('\n')[0]
FirstLine(s) == SubSeq(s, 1, FindChar(s, "\n", 1) - 1)

\* str.replace(a, b) for one-character a, b
Replace(s, a, b) == [i \in 1..Len(s) |-> IF s[i] = a THEN b ELSE s[i]]

LowerLetters == <<"a","b","c","d","e","f","g","h","i","j","k","l","m",
                  "n","o","p","q","r","s","t","u","v","w","x","y","z">>

UpperLetters == <<"A","B","C","D","E","F","G","H","I","J","K","L","M",
                  "N","O","P","Q","R","S","T","U","V","W","X","Y","Z">>

IsLower(c) == \E k \in 1..26 : LowerLetters[k] = c

IsUpper(c) == \E k \in 1..26 : UpperLetters[k] = c

IsCased(c) == IsLower(c) \/ IsUpper(c)

ToUpper(c) == IF IsLower(c) THEN UpperLetters[CHOOSE k \in 1..26 : LowerLetters[k] = c] ELSE c

ToLower(c) == IF IsUpper(c) THEN LowerLetters[CHOOSE k \in 1..26 : UpperLetters[k] = c] ELSE c

\* str.title(): a cased character is upper-cased when it follows an uncased
\* character (or starts the text) and lower-cased otherwise
TitleCase(s) ==
    [i \in 1..Len(s) |->
        IF i > 1 /\ IsCased(s[i - 1]) THEN ToLower(s[i]) ELSE ToUpper(s[i])]

Digits == <<"0","1","2","3","4","5","6","7","8","9">>

IsDigit(c) == \E k \in 1..10 : Digits[k] = c

RECURSIVE NatStr(_)
\* str(n) for n >= 0
NatStr(n) == IF n < 10 THEN <<Digits[n + 1]>> ELSE NatStr(n \div 10) \o <<Digits[(n % 10) + 1]>>

\* str(n) for an int
IntStr(n) == IF n < 0 THEN <<"-">> \o NatStr(0 - n) ELSE NatStr(n)

RECURSIVE ZeroPad(_, _)
\* fixed-width strftime field
ZeroPad(s, w) == IF Len(s) >= w THEN s ELSE ZeroPad(<<"0">> \o s, w)

\* s[-n:]
LastChars(s, n) == IF Len(s) <= n THEN s ELSE SubSeq(s, Len(s) - n + 1, Len(s))

RECURSIVE SeqsUpTo(_, _)
\* the non-empty sequences over S of length at most n
SeqsUpTo(S, n) ==
    IF n = 0 THEN {}
    ELSE LET shorter == SeqsUpTo(S, n - 1)
         IN  {<<x>> : x \in S} \cup shorter \cup {Append(q, x) : q \in shorter, x \in S}

(***************************************************************************)
(* Python values.                                                          *)
(***************************************************************************)
PyStr(s) == [t |-> "str", v |-> s]

PyNone == [t |-> "none", v |-> << >>]

PyNum(digits) == [t |-> "num", v |-> digits]

PyBool(lit) == [t |-> "bool", v |-> lit]

PyList(items) == [t |-> "list", v |-> items]

\* a dict is the sequence of its (key, value) members in insertion order
PyDict(members) == [t |-> "dict", v |-> members]

IsStr(x) == x.t = "str"

\* bool(x)
Truthy(x) ==
    CASE x.t = "str"  -> x.v # << >>
      [] x.t = "none" -> FALSE
      [] x.t = "num"  -> x.v # <<"0">>
      [] x.t = "bool" -> x.v = <<"t","r","u","e">>
      [] x.t = "list" -> x.v # << >>
      [] x.t = "dict" -> x.v # << >>
      [] x.t = "path" -> TRUE

HasKey(d, key) == \E i \in 1..Len(d.v) : d.v[i].k = key

\* dict.get(key, default); json.loads keeps the last of duplicate keys
DictGet(d, key, default) ==
    IF HasKey(d, key)
    THEN d.v[CHOOSE i \in 1..Len(d.v) :
                 d.v[i].k = key /\ \A j \in 1..Len(d.v) : d.v[j].k = key => j <= i].val
    ELSE default

\* context.get(key) on a template context (a record): None when the key is absent
ContextGet(context, key) == IF key \in DOMAIN context THEN context[key] ELSE PyNone

\* context[key] = value
ContextSet(context, key, value) == (key :> value) @@ context

(***************************************************************************)
(* json.loads, for the JSON subset: objects, arrays, strings without       *)
(* escapes, non-negative integers, true, false, null.                      *)
(***************************************************************************)
JsonWhitespace == {" ", "\n", "\t"}

Quote == "\""

JFail == [ok |-> FALSE, val |-> PyNone, pos |-> 0]

JOk(val, pos) == [ok |-> TRUE, val |-> val, pos |-> pos]

RECURSIVE SkipWs(_, _)
SkipWs(s, i) == IF i <= Len(s) /\ s[i] \in JsonWhitespace THEN SkipWs(s, i + 1) ELSE i

\* the string that starts right after an opening quote at i - 1
ScanString(s, i) ==
    LET e == FindChar(s, Quote, i)
        body == SubSeq(s, i, e - 1)
    IN  IF e > Len(s) THEN JFail
        ELSE IF \E k \in 1..Len(body) : body[k] \in {"\n", "\t", "\\"}
        THEN JFail   \* control characters are rejected, escapes are outside the subset
        ELSE JOk(PyStr(body), e + 1)

RECURSIVE DigitsEnd(_, _)
DigitsEnd(s, i) == IF i <= Len(s) /\ IsDigit(s[i]) THEN DigitsEnd(s, i + 1) ELSE i

\* (0|[1-9][0-9]*)
ScanNumber(s, i) ==
    IF s[i] = "0" THEN JOk(PyNum(<<"0">>), i + 1)
    ELSE LET e == DigitsEnd(s, i) IN JOk(PyNum(SubSeq(s, i, e - 1)), e)

ScanLiteral(s, i, lit, val) ==
    IF StartsWith(DropFirst(s, i - 1), lit) THEN JOk(val, i + Len(lit)) ELSE JFail

RECURSIVE ScanValue(_, _)
RECURSIVE ScanElements(_, _, _)
RECURSIVE ScanMembers(_, _, _)

\* the value that starts at the first non-whitespace character at or after i
ScanValue(s, i) ==
    LET j == SkipWs(s, i)
    IN  IF j > Len(s) THEN JFail
        ELSE CASE s[j] = Quote -> ScanString(s, j + 1)
               [] s[j] = "{" ->
                    LET k == SkipWs(s, j + 1)
                    IN  IF k <= Len(s) /\ s[k] = "}" THEN JOk(PyDict(<< >>), k + 1)
                        ELSE ScanMembers(s, k, << >>)
               [] s[j] = "[" ->
                    LET k == SkipWs(s, j + 1)
                    IN  IF k <= Len(s) /\ s[k] = "]" THEN JOk(PyList(<< >>), k + 1)
                        ELSE ScanElements(s, k, << >>)
               [] s[j] = "n" -> ScanLiteral(s, j, <<"n","u","l","l">>, PyNone)
               [] s[j] = "t" -> ScanLiteral(s, j, <<"t","r","u","e">>, PyBool(<<"t","r","u","e">>))
               [] s[j] = "f" -> ScanLiteral(s, j, <<"f","a","l","s","e">>, PyBool(<<"f","a","l","s","e">>))
               [] IsDigit(s[j]) -> ScanNumber(s, j)
               [] OTHER -> JFail

\* array elements from i on, acc holding the elements read so far
ScanElements(s, i, acc) ==
    LET r == ScanValue(s, i)
    IN  IF ~r.ok THEN JFail
        ELSE LET k == SkipWs(s, r.pos)
             IN  IF k > Len(s) THEN JFail
                 ELSE IF s[k] = "]" THEN JOk(PyList(Append(acc, r.val)), k + 1)
                 ELSE IF s[k] = "," THEN ScanElements(s, k + 1, Append(acc, r.val))
                 ELSE JFail

\* object members from i on (i at the opening quote of a key)
ScanMembers(s, i, acc) ==
    IF i > Len(s) \/ s[i] # Quote THEN JFail
    ELSE LET key == ScanString(s, i + 1)
         IN  IF ~key.ok THEN JFail
             ELSE LET c == SkipWs(s, key.pos)
                  IN  IF c > Len(s) \/ s[c] # ":" THEN JFail
                      ELSE LET r == ScanValue(s, c + 1)
                           IN  IF ~r.ok THEN JFail
                               ELSE LET k == SkipWs(s, r.pos)
                                        m == Append(acc, [k |-> key.val.v, val |-> r.val])
                                    IN  IF k > Len(s) THEN JFail
                                        ELSE IF s[k] = "}" THEN JOk(PyDict(m), k + 1)
                                        ELSE IF s[k] = ","
                                             THEN ScanMembers(s, SkipWs(s, k + 1), m)
                                        ELSE JFail

\* json.loads(s): [ok |-> FALSE] stands for json.JSONDecodeError
JsonLoads(s) ==
    LET r == ScanValue(s, 1)
    IN  IF ~r.ok THEN JFail
        ELSE IF SkipWs(s, r.pos) <= Len(s) THEN JFail   \* "Extra data"
        ELSE r

(***************************************************************************)
(* Program literals.  A short literal is spelled character by character;   *)
(* a long fixed sentence is kept as one chunk, since the code only stores  *)
(* and copies it.                                                          *)
(***************************************************************************)
K_objective == <<"o","b","j","e","c","t","i","v","e">>

K_scope == <<"s","c","o","p","e">>

K_responsibilities == <<"r","e","s","p","o","n","s","i","b","i","l","i","t","i","e","s">>

K_definitions == <<"d","e","f","i","n","i","t","i","o","n","s">>

K_pptx_title == <<"p","p","t","x","_","t","i","t","l","e">>

K_title == <<"t","i","t","l","e">>

K_mango_id == <<"m","a","n","g","o","_","i","d">>

\* the backquote character (the TLA+ lexer does not accept it inside a string)
Backquote == "^"

\* the seven characters of the json-tagged fence marker
FenceJson == <<Backquote, Backquote, Backquote, "j", "s", "o", "n">>

Fence == <<Backquote, Backquote, Backquote>>

DefaultScope == <<"This SOP applies to all Cassette Manufacturing operations at the US Stoneham facility">>

DefaultDefinitions == <<"N","/","A">>

ManualReviewMessage == <<"Failed to parse response. Please review manually.">>

\* 'See Mango File {{mango_pptx_id}} -- {{pptx_title}}.', character by character
ProcedureText ==
    <<"S", "e", "e", " ", "M", "a", "n", "g", "o", " ", "F", "i", "l", "e",
      " ", "{", "{", "m", "a", "n", "g", "o", "_", "p", "p", "t", "x", "_",
      "i", "d", "}", "}", " ", "-", "-", " ", "{", "{", "p", "p", "t", "x",
      "_", "t", "i", "t", "l", "e", "}", "}", ".">>

InitialVersion == <<"1",".","0">>

InitialRelease == <<"Initial Release">>

SystemUser == <<"System User">>

(***************************************************************************)
(* pathlib and datetime.                                                   *)
(***************************************************************************)
\* Path.name: the last component
PathName(path) ==
    LET sl == {i \in 1..Len(path) : path[i] = "/"}
    IN  IF sl = {} THEN path
        ELSE DropFirst(path, CHOOSE i \in sl : \A j \in sl : j <= i)

\* Path.stem: the name without its last suffix
PathStem(path) ==
    LET name == PathName(path)
        dots == {i \in 2..(Len(name) - 1) : name[i] = "."}
    IN  IF dots = {} THEN name
        ELSE SubSeq(name, 1, (CHOOSE i \in dots : \A j \in dots : j <= i) - 1)

\* Config.OUTPUT_FOLDER / filename
OutputFolder == <<"o","u","t","p","u","t","s","/">>

Second(now) == now \div TicksPerSecond

Day(now) == Second(now) \div SecondsPerDay

\* strftime('%Y%m%d')
StrfYmd(now) == ZeroPad(NatStr(Day(now)), 8)

\* strftime('%m/%d/%Y')
StrfUsDate(now) ==
    LET d == StrfYmd(now)
    IN  SubSeq(d, 5, 6) \o <<"/">> \o SubSeq(d, 7, 8) \o <<"/">> \o SubSeq(d, 1, 4)

\* strftime('%Y%m%d%H%M%S')
StrfTimestamp(now) == StrfYmd(now) \o ZeroPad(NatStr(Second(now) % SecondsPerDay), 6)

(***************************************************************************)
(* hash(str): fixed within one process, seeded per process.                *)
(***************************************************************************)
HashModulus == 100000

CharCode(c) ==
    IF IsLower(c) THEN CHOOSE k \in 1..26 : LowerLetters[k] = c
    ELSE IF IsUpper(c) THEN 26 + (CHOOSE k \in 1..26 : UpperLetters[k] = c)
    ELSE IF IsDigit(c) THEN 52 + (CHOOSE k \in 1..10 : Digits[k] = c)
    ELSE 63

RECURSIVE HashFold(_, _, _)
HashFold(s, i, h) ==
    IF i > Len(s) THEN h ELSE HashFold(s, i + 1, (h * 31 + CharCode(s[i])) % HashModulus)

\* hash(s) under the process's hash seed: a signed integer
PyHash(seed, s) == HashFold(s, 1, (seed * 7919) % HashModulus) - (HashModulus \div 2)

(***************************************************************************)
(* DocumentProcessor._parse_claude_response                                *)
(***************************************************************************)
\* self.user_name or os.environ.get('USER_NAME', 'System User')
UserNameOrEnv(user_name, env_user_name) == IF user_name # << >> THEN user_name ELSE env_user_name

\* the context dict before the reply is looked at
InitialContext(claude_text, user_name, env_user_name, now) ==
    [mango_pptx_id    |-> PyStr(<< >>),
     pptx_title       |-> PyStr(<< >>),
     date             |-> PyStr(StrfUsDate(now)),
     user_name        |-> PyStr(UserNameOrEnv(user_name, env_user_name)),
     objective        |-> PyStr(<< >>),
     scope            |-> PyStr(DefaultScope),
     responsibilities |-> PyStr(<< >>),
     definitions      |-> PyStr(DefaultDefinitions),
     procedure_text   |-> PyStr(ProcedureText),
     revisions        |-> << [date              |-> PyStr(StrfUsDate(now)),
                              version           |-> PyStr(InitialVersion),
                              nature_of_changes |-> PyStr(InitialRelease),
                              changed_by        |-> PyStr(UserNameOrEnv(user_name, env_user_name))] >>,
     full_response    |-> PyStr(claude_text)]

\* mutant: the json-tagged marker is cut like the plain one (three characters)
CleanResponseShortCut(claude_text) ==
    LET c0 == Strip(claude_text)
        c1 == IF StartsWith(c0, Fence) THEN DropFirst(c0, 3) ELSE c0
    IN  IF EndsWith(c1, Fence) THEN DropLast(c1, 3) ELSE c1

\* removal of the markdown code fence markers
CleanResponse(claude_text) ==
    LET c0 == Strip(claude_text)
        c1 == IF StartsWith(c0, FenceJson) THEN DropFirst(c0, 7) ELSE c0
        c2 == IF StartsWith(c1, Fence) THEN DropFirst(c1, 3) ELSE c1
    IN  IF EndsWith(c2, Fence) THEN DropLast(c2, 3) ELSE c2

\* mutant: the text is not trimmed after the markers are removed
StripFencesUntrimmed(claude_text) == CleanResponse(claude_text)

\* the stripping step: the text json.loads is given
StripFences(claude_text) == Strip(CleanResponse(claude_text))

\* mutant: the title key is preferred over pptx_title
MapParsedTitleFirst(context, parsed) ==
    LET c1 == ContextSet(context, "objective", DictGet(parsed, K_objective, PyStr(<< >>)))
        c2 == ContextSet(c1, "scope", DictGet(parsed, K_scope, context.scope))
        c3 == ContextSet(c2, "responsibilities", DictGet(parsed, K_responsibilities, PyStr(<< >>)))
        c4 == ContextSet(c3, "definitions", DictGet(parsed, K_definitions, PyStr(DefaultDefinitions)))
        c5 == ContextSet(c4, "pptx_title",
                         DictGet(parsed, K_title, DictGet(parsed, K_pptx_title, PyStr(<< >>))))
    IN  IF Truthy(DictGet(parsed, K_mango_id, PyNone))
        THEN ContextSet(c5, "mango_pptx_id", DictGet(parsed, K_mango_id, PyNone))
        ELSE c5

\* the mapping of a parsed JSON object to the template fields
MapParsed(context, parsed) ==
    LET c1 == ContextSet(context, "objective", DictGet(parsed, K_objective, PyStr(<< >>)))
        c2 == ContextSet(c1, "scope", DictGet(parsed, K_scope, context.scope))
        c3 == ContextSet(c2, "responsibilities", DictGet(parsed, K_responsibilities, PyStr(<< >>)))
        c4 == ContextSet(c3, "definitions", DictGet(parsed, K_definitions, PyStr(DefaultDefinitions)))
        c5 == ContextSet(c4, "pptx_title",
                         DictGet(parsed, K_pptx_title, DictGet(parsed, K_title, PyStr(<< >>))))
    IN  IF Truthy(DictGet(parsed, K_mango_id, PyNone))
        THEN ContextSet(c5, "mango_pptx_id", DictGet(parsed, K_mango_id, PyNone))
        ELSE c5

\* mutant: the fallback takes the first line of the text as it came
FallbackContextRawLine(context, claude_text) ==
    ContextSet(ContextSet(context, "pptx_title", PyStr(Strip(FirstLine(claude_text)))),
               "objective", PyStr(ManualReviewMessage))

\* mutant: the fallback builds a new dict with the two fields it knows
FallbackContextFresh(context, claude_text) ==
    [pptx_title |-> PyStr(Strip(FirstLine(Strip(claude_text)))),
     objective  |-> PyStr(ManualReviewMessage)]

\* the except json.JSONDecodeError branch
FallbackContext(context, claude_text) ==
    ContextSet(ContextSet(context, "pptx_title", PyStr(Strip(FirstLine(Strip(claude_text))))),
               "objective", PyStr(ManualReviewMessage))

\* raised: an exception other than json.JSONDecodeError left the method
\* (parsed.get on a value that is not a dict raises AttributeError)
ParseClaudeResponse(claude_text, user_name, env_user_name, now) ==
    LET context == InitialContext(claude_text, user_name, env_user_name, now)
        parsed == JsonLoads(StripFences(claude_text))
    IN  IF ~parsed.ok
        THEN [raised |-> FALSE, context |-> FallbackContext(context, claude_text)]
        ELSE IF parsed.val.t # "dict"
        THEN [raised |-> TRUE, context |-> context]
        ELSE [raised |-> FALSE, context |-> MapParsed(context, parsed.val)]

(***************************************************************************)
(* DocumentProcessor.process_single_file, after the reply was parsed       *)
(***************************************************************************)
\* mutant: the generated identifier carries the date only
SynthesizedIdByDate(mango_prefix, pptx_path, now, hash_seed) ==
    mango_prefix \o StrfYmd(now) \o <<"-">>
        \o LastChars(IntStr(PyHash(hash_seed, PathName(pptx_path))), 4)

\* the generated Mango ID
SynthesizedId(mango_prefix, pptx_path, now, hash_seed) ==
    mango_prefix \o StrfTimestamp(now) \o <<"-">>
        \o LastChars(IntStr(PyHash(hash_seed, PathName(pptx_path))), 4)

\* pptx_path.stem.replace('_', ' ').title()
FilenameTitle(pptx_path) == TitleCase(Replace(PathStem(pptx_path), "_", " "))

\* mutant: the identifier is generated only when the key is missing from the context
NeedsIdKeyMissing(context, mango_prefix) == mango_prefix # << >> /\ "mango_pptx_id" \notin DOMAIN context

\* the identifier is generated: a prefix is set and the context has no identifier
NeedsId(context, mango_prefix) == mango_prefix # << >> /\ ~Truthy(ContextGet(context, "mango_pptx_id"))

\* the filename title is used: the context has no title
NeedsTitle(context) == ~Truthy(ContextGet(context, "pptx_title"))

\* source information, generated identifier and filename title
CompleteContext(context, pptx_path, slide_count, user_name, mango_prefix, now, hash_seed) ==
    LET c1 == ContextSet(context, "source_file", PyStr(PathName(pptx_path)))
        c2 == ContextSet(c1, "slide_count", PyNum(NatStr(slide_count)))
        c3 == ContextSet(c2, "user_name", PyStr(user_name))
        c4 == IF NeedsId(c3, mango_prefix)
              THEN ContextSet(c3, "mango_pptx_id",
                              PyStr(SynthesizedId(mango_prefix, pptx_path, now, hash_seed)))
              ELSE c3
    IN  IF NeedsTitle(c4)
        THEN ContextSet(c4, "pptx_title", PyStr(FilenameTitle(pptx_path)))
        ELSE c4

\* Config.OUTPUT_FOLDER / f"{stem}_SOP_{date}.docx"
OutputPath(pptx_path, now) ==
    OutputFolder \o PathStem(pptx_path) \o <<"_","S","O","P","_">> \o StrfYmd(now)
        \o <<".","d","o","c","x">>

(***************************************************************************)
(* WordDocumentGenerator.generate_document: the context handed to          *)
(* doc.render                                                              *)
(***************************************************************************)
\* strftime('%Y-%m-%d %H:%M:%S')
StrfGenerated(now) ==
    LET d == StrfYmd(now)
        t == ZeroPad(NatStr(Second(now) % SecondsPerDay), 6)
    IN  SubSeq(d, 1, 4) \o <<"-">> \o SubSeq(d, 5, 6) \o <<"-">> \o SubSeq(d, 7, 8) \o <<" ">>
            \o SubSeq(t, 1, 2) \o <<":">> \o SubSeq(t, 3, 4) \o <<":">> \o SubSeq(t, 5, 6)

GeneratorVersion == <<"1", ".", "0">>

\* mutant: the version field carries the second of the call
RenderContextVersionByTime(context, now) ==
    ContextSet(ContextSet(context, "generated_date", PyStr(StrfGenerated(now))),
               "generator_version", PyStr(GeneratorVersion \o <<".">> \o NatStr(Second(now))))

RenderContext(context, now) ==
    ContextSet(ContextSet(context, "generated_date", PyStr(StrfGenerated(now))),
               "generator_version", PyStr(GeneratorVersion))

(***************************************************************************)
(* ClaudeAPIClient.process_presentation: one POST, then the classification *)
(* of what came back.  An exchange is what session.post and                *)
(* response.text() did: a response with a status and a body, or an         *)
(* exception.  The value returned is a Python dict, modelled as a record   *)
(* whose domain is the dict's keys.                                        *)
(***************************************************************************)
K_content == <<"c","o","n","t","e","n","t">>

K_text == <<"t","e","x","t">>

K_usage == <<"u","s","a","g","e">>

K_error == <<"e","r","r","o","r">>

K_message == <<"m","e","s","s","a","g","e">>

\* response_text[:500]
ExcerptLength == 500

Excerpt(text) == IF Len(text) <= ExcerptLength THEN text ELSE SubSeq(text, 1, ExcerptLength)

Raise(exc, msg) == [exc |-> exc, val |-> PyNone, msg |-> msg]

Value(val) == [exc |-> "", val |-> val, msg |-> << >>]

\* x[key] for a str key; r is the evaluation of x
GetKey(r, key) ==
    IF r.exc # "" THEN r
    ELSE CASE r.val.t = "dict" ->
                IF HasKey(r.val, key) THEN Value(DictGet(r.val, key, PyNone))
                ELSE Raise("KeyError", <<"'">> \o key \o <<"'">>)
           [] r.val.t = "list" -> Raise("TypeError", <<"list indices must be integers or slices, not str">>)
           [] r.val.t = "str"  -> Raise("TypeError", <<"string indices must be integers">>)
           [] OTHER            -> Raise("TypeError", <<"object is not subscriptable">>)

\* x[0]; r is the evaluation of x
GetFirst(r) ==
    IF r.exc # "" THEN r
    ELSE CASE r.val.t = "list" ->
                IF r.val.v # << >> THEN Value(r.val.v[1])
                ELSE Raise("IndexError", <<"list index out of range">>)
           [] r.val.t = "str"  ->
                IF r.val.v # << >> THEN Value(PyStr(<<r.val.v[1]>>))
                ELSE Raise("IndexError", <<"string index out of range">>)
           [] r.val.t = "dict" -> Raise("KeyError", <<"0">>)
           [] OTHER            -> Raise("TypeError", <<"object is not subscriptable">>)

InvalidFormatText == <<"Invalid API response format">>

AuthFailedText == <<"Authentication failed. Please check your API key.">>

NetworkErrorPrefix == <<"Network error: ">>

UnexpectedErrorPrefix == <<"Unexpected error: ">>

\* the try block of the non-200 branch: the error message
ErrorMessage(status, response_text) ==
    LET error_data == JsonLoads(response_text)
        error_msg == PyStr(<<"API error: ">> \o NatStr(status))
    IN  IF ~error_data.ok
        THEN IF StartsWith(response_text, <<"<">>) THEN PyStr(AuthFailedText) ELSE error_msg
        ELSE CASE error_data.val.t = "dict" ->
                    IF ~HasKey(error_data.val, K_error) THEN error_msg
                    ELSE LET error == DictGet(error_data.val, K_error, PyNone)
                         IN  IF error.t = "dict" THEN DictGet(error, K_message, error_msg)
                             ELSE error_msg   \* AttributeError, caught by the bare except
               [] OTHER -> error_msg          \* TypeError, caught by the bare except
                                              \* (a JSON text never starts with "<")

\* mutant: no `except Exception` clause, the exception leaves process_presentation
UnexpectedErrorPropagates(message) == [raised |-> message]

\* except Exception as e
UnexpectedError(message) == [success |-> FALSE, error |-> PyStr(UnexpectedErrorPrefix \o message)]

\* the dict process_presentation returns for an exchange
ProcessPresentation(exchange) ==
    CASE exchange.kind = "ClientError" ->
            [success |-> FALSE, error |-> PyStr(NetworkErrorPrefix \o exchange.message)]
      [] exchange.kind \in {"TimeoutError", "UnicodeDecodeError"} ->
            UnexpectedError(exchange.message)
      [] exchange.kind = "response" /\ exchange.status = 200 ->
            LET data == JsonLoads(exchange.body)
            IN  IF ~data.ok
                THEN \* details is str(e) of the json.JSONDecodeError, which names the
                     \* place of the offending character; the model keeps one message
                     [success |-> FALSE, error |-> PyStr(InvalidFormatText),
                      details |-> PyStr(<<"Expecting value: line 1 column 1 (char 0)">>)]
                ELSE LET text == GetKey(GetFirst(GetKey(Value(data.val), K_content)), K_text)
                     IN  CASE text.exc = "" ->
                                [success |-> TRUE, content |-> text.val,
                                 usage |-> DictGet(data.val, K_usage, PyDict(<< >>))]
                           [] text.exc = "KeyError" ->
                                [success |-> FALSE, error |-> PyStr(InvalidFormatText),
                                 details |-> PyStr(text.msg)]
                           [] OTHER -> UnexpectedError(text.msg)
      [] exchange.kind = "response" /\ exchange.status # 200 ->
            [success |-> FALSE, error |-> ErrorMessage(exchange.status, exchange.body),
             details |-> PyStr(Excerpt(exchange.body))]

(***************************************************************************)
(* The replies of the model endpoint that the checks enumerate: JSON       *)
(* objects in the shape the prompt asks for (with keys missing and with    *)
(* values of every JSON type), JSON values that are not objects, text that *)
(* is not JSON, and the same wrapped in a markdown code fence.             *)
(***************************************************************************)
RECURSIVE JoinTexts(_, _)
JoinTexts(texts, sep) ==
    IF texts = << >> THEN << >>
    ELSE IF Len(texts) = 1 THEN texts[1]
    ELSE texts[1] \o sep \o JoinTexts(Tail(texts), sep)

RECURSIVE JsonDump(_)
\* the JSON text of a value
JsonDump(x) ==
    CASE x.t = "str"  -> <<Quote>> \o x.v \o <<Quote>>
      [] x.t = "none" -> <<"n","u","l","l">>
      [] x.t = "num"  -> x.v
      [] x.t = "bool" -> x.v
      [] x.t = "list" -> <<"[">> \o JoinTexts([i \in 1..Len(x.v) |-> JsonDump(x.v[i])], <<",">>) \o <<"]">>
      [] x.t = "dict" ->
            <<"{">> \o JoinTexts([i \in 1..Len(x.v) |->
                                    <<Quote>> \o x.v[i].k \o <<Quote, ":">> \o JsonDump(x.v[i].val)],
                                 <<",", " ">>) \o <<"}">>

\* marks a key the reply leaves out
Absent == [t |-> "absent", v |-> << >>]

Member(key, choice) == IF choice = Absent THEN << >> ELSE << [k |-> key, val |-> choice] >>

OddValues == {PyNone, PyNum(<<"7">>), PyList(<<PyStr(<<"x">>)>>), PyDict(<< >>), PyStr(<< >>), PyBool(<<"f","a","l","s","e">>)}

\* replies that differ in the two title keys
TitleObjects ==
    {PyDict(Member(K_title, t) \o Member(K_objective, PyStr(<<"O","b">>)) \o Member(K_pptx_title, p)) :
        t \in {Absent, PyStr(<< >>), PyStr(<<"T","i">>), PyNum(<<"5">>)},
        p \in {Absent, PyStr(<< >>), PyStr(<<"P"," ","t">>), PyNone}}

\* replies that differ in the identifier key
IdObjects ==
    {PyDict(Member(K_mango_id, m) \o Member(K_pptx_title, PyStr(<<"P"," ","t">>))) :
        m \in {PyStr(<< >>), PyStr(<<"I","D","9">>), PyNum(<<"0">>), PyNum(<<"1","2">>), PyNone}}

\* replies that carry one section key with a value that is not a text
SectionObjects ==
    {PyDict(Member(key, val)) :
        key \in {K_objective, K_scope, K_responsibilities, K_definitions}, val \in OddValues}

\* the reply the prompt asks for, one with an identifier, and the empty object
FullObjects ==
    {PyDict(Member(K_title, PyStr(<<"T","i">>)) \o Member(K_objective, PyStr(<<"O","b">>))
            \o Member(K_scope, PyStr(<<"S","c">>)) \o Member(K_responsibilities, PyStr(<<"R","e">>))
            \o Member(K_definitions, PyStr(<<"D",":"," ","f">>)) \o Member(K_mango_id, PyStr(<< >>))
            \o Member(K_pptx_title, PyStr(<<"P"," ","t">>))),
     PyDict(Member(K_title, PyStr(<<"T","i">>)) \o Member(K_mango_id, PyStr(<<"I","D","9">>))
            \o Member(K_pptx_title, PyStr(<<"P"," ","t">>))),
     PyDict(<< >>)}

ReplyObjects == TitleObjects \cup IdObjects \cup SectionObjects \cup FullObjects

\* the JSON texts of the reply objects
ObjectTexts == {JsonDump(x) : x \in ReplyObjects}

\* JSON texts whose value is not an object
NonObjectTexts ==
    {JsonDump(x) : x \in {PyList(<< >>), PyList(<<PyNum(<<"1">>), PyStr(<<"a">>)>>), PyNum(<<"4","2">>),
                          PyStr(<<"h","i">>), PyNone, PyBool(<<"t","r","u","e">>)}}

\* texts json.loads rejects
NonJsonTexts ==
    {<< >>,
     <<" ", "\n">>,
     <<"S", "t", "e", "p", " ", "o", "n", "e", "\n", "t", "h", "e", "n">>,
     <<"\n", " ", " ", "H", "i", " ", "a", "l", "l", " ", "\n", "b", "y", "e">>,
     <<"{">>,
     <<"{", "\"", "t", "i", "t", "l", "e", "\"", ":", "\"", "T", "\"">>,
     <<"[", "1", ",", "]">>,
     <<"0", "1">>,
     <<"{", "}", " ", "x">>,
     <<"{", "\"", "t", "i", "t", "l", "e", "\"", ":", "\"", "a", "\n", "b", "\"", "}">>}

\* a text wrapped in a code fence: ```json or ```, the text, ```
Wrap(kind, text) ==
    CASE kind = "json"   -> FenceJson \o <<"\n">> \o text \o <<"\n">> \o Fence
      [] kind = "plain"  -> Fence \o <<"\n">> \o text \o <<"\n">> \o Fence
      [] kind = "tight"  -> FenceJson \o text \o Fence
      [] kind = "spaced" -> <<" ", "\n">> \o FenceJson \o <<"\n", " ">> \o text \o <<"\t", "\n">> \o Fence \o <<"\n", " ">>

WrapKinds == {"json", "plain", "tight", "spaced"}

\* replies with a fence inside a fence, and one with a marker in its middle
NestedFenceTexts ==
    {Wrap("plain", Wrap("json", <<"{", "}">>)), Wrap("tight", Wrap("tight", <<"{", "}">>)),
     <<"a", " ">> \o Fence \o <<" ", "b">>}

ReplyTexts ==
    ObjectTexts \cup NonObjectTexts \cup NonJsonTexts \cup NestedFenceTexts
        \cup {Wrap(kind, text) : kind \in WrapKinds, text \in ObjectTexts}
        \cup {Wrap("json", text) : text \in NonObjectTexts \cup NonJsonTexts}

\* the replies the batch runs draw from: the reply the prompt asks for, a
\* reply with an identifier, a fenced reply, a JSON list, and prose
BatchReplyTexts ==
    {JsonDump(PyDict(Member(K_title, PyStr(<<"T","i">>)) \o Member(K_mango_id, PyStr(<< >>)))),
     JsonDump(PyDict(Member(K_mango_id, PyStr(<<"I","D","9">>)))),
     Wrap("json", JsonDump(PyDict(Member(K_objective, PyStr(<<"O","b">>))))),
     JsonDump(PyList(<< >>)),
     <<"S","e","e"," ","b","e","l","o","w">>}

(***************************************************************************)
(* PowerPointProcessor.extract_text_from_pptx and                          *)
(* ClaudeAPIClient._format_pptx_content.  A deck is the sequence of its    *)
(* slides, a slide the sequence of its shapes in document order, a shape   *)
(* [kind, text] with kind "title" (the title placeholder), "text" (any     *)
(* other shape with a text frame) or "picture" (a shape without a text     *)
(* attribute).                                                             *)
(***************************************************************************)
\* slide.shapes.title: the first title placeholder, 0 for None
TitleIndex(shapes) ==
    LET titles == {i \in 1..Len(shapes) : shapes[i].kind = "title"}
    IN  IF titles = {} THEN 0 ELSE CHOOSE i \in titles : \A j \in titles : i <= j

RECURSIVE ShapeTextsWithTitle(_, _, _)
\* mutant: the loop does not compare the shape with the title placeholder
ShapeTextsWithTitle(shapes, i, title) ==
    IF i > Len(shapes) THEN << >>
    ELSE (IF shapes[i].kind # "picture" /\ shapes[i].text # << >>
          THEN <<shapes[i].text>> ELSE << >>) \o ShapeTextsWithTitle(shapes, i + 1, title)

RECURSIVE ShapeTexts(_, _, _)
\* the for loop over slide.shapes from shape i on
ShapeTexts(shapes, i, title) ==
    IF i > Len(shapes) THEN << >>
    ELSE (IF shapes[i].kind # "picture" /\ shapes[i].text # << >> /\ i # title
          THEN <<shapes[i].text>> ELSE << >>) \o ShapeTexts(shapes, i + 1, title)

ExtractText(file_path, slides) ==
    [filename    |-> PathName(file_path),
     slide_count |-> Len(slides),
     slides      |-> [n \in 1..Len(slides) |->
                        [slide_number |-> n,
                         title        |-> IF TitleIndex(slides[n]) = 0 THEN << >>
                                          ELSE slides[n][TitleIndex(slides[n])].text,
                         content      |-> ShapeTexts(slides[n], 1, TitleIndex(slides[n]))]]]

\* the bullet of a content line (the source spells it with characters
\* outside ASCII; "*" stands for them)
Bullet == <<"  * ">>

\* mutant: the title line is written for every slide
FormatSlideTitleAlways(slide) ==
    <<"--- Slide ">> \o NatStr(slide.slide_number) \o <<" ---", "\n">>
        \o <<"Title: ">> \o slide.title \o <<"\n">>
        \o (IF slide.content # << >>
            THEN <<"Content:", "\n">>
                    \o JoinTexts([i \in 1..Len(slide.content) |-> Bullet \o slide.content[i] \o <<"\n">>], << >>)
            ELSE << >>)
        \o <<"\n">>

\* the body of the for loop of _format_pptx_content
FormatSlide(slide) ==
    <<"--- Slide ">> \o NatStr(slide.slide_number) \o <<" ---", "\n">>
        \o (IF slide.title # << >> THEN <<"Title: ">> \o slide.title \o <<"\n">> ELSE << >>)
        \o (IF slide.content # << >>
            THEN <<"Content:", "\n">>
                    \o JoinTexts([i \in 1..Len(slide.content) |-> Bullet \o slide.content[i] \o <<"\n">>], << >>)
            ELSE << >>)
        \o <<"\n">>

FormatPptxContent(content) ==
    <<"Presentation: ">> \o content.filename \o <<"\n">>
        \o <<"Total Slides: ">> \o NatStr(content.slide_count) \o <<"\n", "\n">>
        \o JoinTexts([n \in 1..Len(content.slides) |-> FormatSlide(content.slides[n])], << >>)

Separator == <<"\n", "\n", "PowerPoint Content:", "\n">>

\* f"{custom_prompt}\n\nPowerPoint Content:\n{formatted_content}"
FullPrompt(prompt, content) == prompt \o Separator \o FormatPptxContent(content)

(***************************************************************************)
(* The decks the checks enumerate.                                         *)
(***************************************************************************)
\* slides: without shapes; a title only; a title between two texts, one of
\* them with the title's text, and a picture; a title placeholder left
\* empty, an empty text box and a text of two lines; texts without a title
SlideChoices ==
    {<< >>,
     <<[kind |-> "title", text |-> <<"T">>]>>,
     <<[kind |-> "text", text |-> <<"T">>], [kind |-> "title", text |-> <<"T">>],
       [kind |-> "picture", text |-> << >>], [kind |-> "text", text |-> <<"a">>]>>,
     <<[kind |-> "title", text |-> << >>], [kind |-> "text", text |-> << >>],
       [kind |-> "text", text |-> <<"a", "\n", "b">>]>>,
     <<[kind |-> "text", text |-> <<"b">>], [kind |-> "text", text |-> <<"a">>]>>}

\* the decks of up to MaxSlides slides
Decks == {<< >>} \cup SeqsUpTo(SlideChoices, MaxSlides)

\* the decks of the runs that do not look into the slides
SampleDecks == {<< >>, << <<[kind |-> "title", text |-> <<"T">>]>> >>}

\* the prompt texts: SOPDocumentConfig.DEFAULT_SOP_PROMPT (its first line and
\* its last, the lines between left out) and one of the user
DefaultPrompt ==
    <<"# PowerPoint Work Instruction to SOP Conversion Prompt", "\n", "\n",
      "Remember: Your ENTIRE response must be a single valid JSON object with no additional text or formatting.">>

Prompts == {DefaultPrompt, <<"L", "i", "s", "t", ":">>}

(***************************************************************************)
(* The exchanges with the endpoint that the checks enumerate: every status *)
(* with every body, and the exceptions of the request.                     *)
(***************************************************************************)
\* the reply of the messages endpoint: {"content": [{"text": ...}], "usage": ...}
Envelope(text, usage) ==
    JsonDump(PyDict(Member(K_content, PyList(<<PyDict(Member(K_text, text))>>)) \o Member(K_usage, usage)))

\* the bodies: envelopes with and without a text and a usage, JSON values
\* without a text to extract, error answers, and texts that are not JSON
\* (empty, markup, plain, markup longer than the excerpt)
Bodies ==
    {Envelope(text, usage) :
        text \in {PyStr(<<"H","i">>), PyStr(<<"{","}">>), PyStr(<<"[","]">>), PyNum(<<"7">>), Absent},
        usage \in {Absent, PyDict(Member(<<"i","n">>, PyNum(<<"5">>)))}}
    \cup
    {JsonDump(x) : x \in {PyDict(<< >>), PyDict(Member(K_content, PyList(<< >>))),
                          PyDict(Member(K_content, PyList(<<PyNum(<<"7">>)>>))),
                          PyDict(Member(K_content, PyStr(<<"a","b">>))),
                          PyDict(Member(K_content, PyStr(<< >>))),
                          PyDict(Member(K_content, PyDict(<< >>))),
                          PyList(<< >>), PyList(<<PyStr(K_error)>>), PyNum(<<"7">>), PyStr(K_error),
                          PyDict(Member(K_message, PyStr(<<"O","v","e","r">>)))}}
    \cup
    {JsonDump(PyDict(Member(K_error, error))) :
        error \in {PyDict(Member(K_text, PyStr(<<"x">>)) \o Member(K_message, PyStr(<<"O","v","e","r">>))),
                   PyDict(Member(K_text, PyStr(<<"x">>))),
                   PyDict(Member(K_message, PyNone)),
                   PyStr(<<"n","o">>)}}
    \cup
    {<< >>, <<"<","h","t","m","l",">">>, <<"B","a","d"," ","g","a","t","e","w","a","y">>,
     <<"<">> \o [i \in 1..ExcerptLength |-> "x"]}

Exchanges ==
    {[kind |-> "response", status |-> status, body |-> body, message |-> << >>] :
        status \in {200, 401, 529}, body \in Bodies}
        \cup {[kind |-> "ClientError", status |-> 0, body |-> << >>,
               message |-> <<"Cannot connect to host">>],
              [kind |-> "TimeoutError", status |-> 0, body |-> << >>, message |-> << >>],
              [kind |-> "UnicodeDecodeError", status |-> 0, body |-> << >>,
               message |-> <<"'utf-8' codec can't decode byte">>]}

(***************************************************************************)
(* The batch run: DocumentProcessor.process_batch over pptx_files.         *)
(***************************************************************************)
VARIABLES
    user_name,       \* processor.user_name
    mango_prefix,    \* processor.mango_prefix
    env_user_name,   \* os.environ.get('USER_NAME', 'System User')
    hash_seed,       \* the process's str hash seed
    pptx_files,      \* the argument of process_batch
    idx,             \* position of the for loop in pptx_files
    pc,              \* "extract", "await" (request sent, reply pending), "done"
    pptx_content,    \* extracted content of the current file (at most one)
    claude_response, \* the reply text of the current file (at most one)
    parsed_context,  \* what _parse_claude_response returned for it (at most one)
    results,         \* the list process_batch builds
    context,         \* the context handed to doc.render for the current file (at most one)
    outputs,         \* paths of the documents saved to the output folder
    now,             \* the clock, in ticks
    outcome,         \* history: per finished file, "ok" or the stage that raised
    id_log,          \* history: the identifiers synthesized so far
    requests,        \* history: the number of session.post calls made
    exchange,        \* what the request of the current file met (at most one)
    api_result,      \* what process_presentation returned for it (at most one)
    mode,            \* "batch" (main) or "interactive" (upload_files)
    template_exists, \* template_path.exists()
    template_path,   \* doc_generator.template_path
    credential,      \* how the API key was supplied: "none", "empty_env", "environment", "argument"
    submitted,       \* the file names submitted: found by glob, or uploaded
    api_key,         \* the key the client was built with (at most one)
    uploads,         \* files in the upload folder
    response,        \* what the entry point answered (at most one)
    download,        \* the last download request and its answer (at most one)
    custom_prompt,   \* processor.custom_prompt
    deck,            \* the presentation of the current file (at most one)
    full_prompt,     \* the prompt of the request of the current file (at most one)
    trace,           \* history: per file, the stages entered, in order
    folder,          \* the upload folder as concurrent requests see it: [path, content] per file
    handlers         \* the upload requests handled concurrently, per request its position and history

vars == <<user_name, mango_prefix, env_user_name, hash_seed, pptx_files, idx, pc,
          pptx_content, claude_response, parsed_context, results, context, outputs, now,
          outcome, id_log, requests, exchange, api_result,
          mode, template_exists, template_path, credential, submitted, api_key, uploads, response, download,
          custom_prompt, deck, full_prompt, trace, folder, handlers>>

concurrent_vars == <<folder, handlers>>

client_vars == <<exchange, api_result>>

file_vars == <<claude_response, parsed_context, context>>

entry_vars == <<mode, template_exists, template_path, credential, submitted, api_key, uploads, response, download,
                concurrent_vars>>

config_vars == <<user_name, mango_prefix, env_user_name, hash_seed, pptx_files, entry_vars,
                 custom_prompt>>

InputPaths == {<<"u", "/", "q", "_", "a", ".", "p", "p", "t", "x">>,
               <<"u", "/", "b", ".", "p", "p", "t", "x">>}

UserNames == {<< >>, <<"b", "k">>}

MangoPrefixes == {<< >>, <<"M", "-">>}

\* the key given with --api-key, the key of the CLAUDE_API_KEY variable, and
\* the default of Config.CLAUDE_API_KEY
ArgumentKey == <<"s", "k", "-", "a">>

EnvironmentKey == <<"s", "k", "-", "e">>

PlaceholderKey == <<"your-api-key-here">>

\* one tick before the last second of a day
StartTime == TicksPerSecond * (SecondsPerDay - 1) - 1

\* Config.TEMPLATE_FOLDER / 'LS-sop.docx', the template of the upload form
DefaultTemplate == <<"t","e","m","p","l","a","t","e","s","/">> \o <<"L","S","-","s","o","p",".","d","o","c","x">>

\* the templates given with --template or the template form field: the
\* default one, and a document generated earlier that day from the deck b.pptx
TemplatePaths == {DefaultTemplate, OutputPath(<<"u", "/", "b", ".", "p", "p", "t", "x">>, StartTime)}

\* the state when process_batch is called on a processor built with one of
\* the prompts and one of the templates
Built(prompts, templates) ==
    /\ custom_prompt \in prompts
    /\ deck = << >>
    /\ full_prompt = << >>
    /\ trace = << >>
    /\ folder = {}
    /\ user_name \in UserNames
    /\ mango_prefix \in MangoPrefixes
    /\ env_user_name = SystemUser
    /\ hash_seed \in 0..MaxSeed
    /\ pptx_files \in SeqsUpTo(InputPaths, MaxFiles)
    /\ idx = 1
    /\ pc = "extract"
    /\ pptx_content = << >>
    /\ claude_response = << >>
    /\ parsed_context = << >>
    /\ results = << >>
    /\ context = << >>
    /\ outputs = {}
    /\ now = StartTime
    /\ outcome = << >>
    /\ id_log = {}
    /\ requests = 0
    /\ exchange = << >>
    /\ api_result = << >>
    /\ mode = "batch"
    /\ template_exists = TRUE
    /\ template_path \in templates
    /\ handlers = << >>
    /\ credential = "argument"
    /\ submitted = [i \in 1..Len(pptx_files) |-> PathName(pptx_files[i])]
    /\ api_key = <<ArgumentKey>>
    /\ uploads = {}
    /\ response = << >>
    /\ download = << >>

Init == Built({DefaultPrompt}, {DefaultTemplate})

\* the path object process_single_file returns
PyPath(path) == [t |-> "path", v |-> path]

\* mutant: the except branch logs the failure and records nothing
RecordFailureDropped(res) == res

\* except Exception: results.append(None)
RecordFailure(res) == Append(res, PyNone)

\* results.append(output_path)
RecordSuccess(res, output_path) == Append(res, PyPath(output_path))

\* the for loop moves to the next file or ends
NextFile ==
    /\ idx' = idx + 1
    /\ pc' = IF idx < Len(pptx_files) THEN "extract" ELSE "done"
    /\ pptx_content' = << >>
    /\ deck' = << >>
    /\ full_prompt' = << >>

\* what process_single_file does with a successful reply: the stage that
\* raised (or "ok"), the context handed to doc.render, the path returned
SingleFileResult(claude_text, render_ok, pptx_path, slide_count, user, prefix, env_user, time, seed) ==
    LET parsed == ParseClaudeResponse(claude_text, user, env_user, time)
    IN  IF parsed.raised
        THEN [stage |-> "parse", parsed |-> << >>, handed |-> << >>, path |-> << >>, new_ids |-> {}]
        ELSE LET full == CompleteContext(parsed.context, pptx_path, slide_count, user, prefix, time, seed)
             IN  [stage   |-> IF render_ok THEN "ok" ELSE "render",
                  parsed  |-> <<parsed.context>>,
                  handed  |-> <<RenderContext(full, time)>>,
                  path    |-> IF render_ok THEN <<OutputPath(pptx_path, time)>> ELSE << >>,
                  new_ids |-> IF NeedsId(parsed.context, prefix)
                              THEN {[file |-> PathName(pptx_path), at |-> time,
                                     stamp |-> StrfTimestamp(time), id |-> full.mango_pptx_id.v]}
                              ELSE {}]

\* the stages process_single_file enters up to the request: the extractor,
\* then in process_presentation the formatter and the POST
RequestStages == <<"extract", "format", "call">>

\* mutant: the renderer is invoked whatever the reply was
StagesAfterAlwaysRender(stage) == <<"interpret", "render">>

\* the stages entered after the request, by the stage that ended the file:
\* none when the reply was a failure, the interpreter when it raised, the
\* interpreter and the renderer otherwise
StagesAfter(stage) ==
    CASE stage = "api"   -> << >>
      [] stage = "parse" -> <<"interpret">>
      [] OTHER           -> <<"interpret", "render">>

\* mutant: the requests of all the files that are left are sent at once
ExtractOkFanOut(decks) ==
    /\ pc = "extract"
    /\ \E slides \in decks :
          /\ deck' = <<slides>>
          /\ pptx_content' = <<ExtractText(pptx_files[idx], slides)>>
          /\ full_prompt' = <<FullPrompt(custom_prompt, ExtractText(pptx_files[idx], slides))>>
    /\ requests' = requests + (Len(pptx_files) - idx + 1)
    /\ trace' = Append(trace, RequestStages)
    /\ pc' = "await"
    /\ claude_response' = << >>
    /\ parsed_context' = << >>
    /\ context' = << >>
    /\ exchange' = << >>
    /\ api_result' = << >>
    /\ UNCHANGED <<config_vars, idx, results, outputs, now, outcome, id_log>>

\* extract_text_from_pptx returns the deck's content; the request is sent
ExtractOk(decks) ==
    /\ pc = "extract"
    /\ \E slides \in decks :
          /\ deck' = <<slides>>
          /\ pptx_content' = <<ExtractText(pptx_files[idx], slides)>>
          /\ full_prompt' = <<FullPrompt(custom_prompt, ExtractText(pptx_files[idx], slides))>>
    /\ requests' = requests + 1
    /\ trace' = Append(trace, RequestStages)
    /\ pc' = "await"
    /\ claude_response' = << >>
    /\ parsed_context' = << >>
    /\ context' = << >>
    /\ exchange' = << >>
    /\ api_result' = << >>
    /\ UNCHANGED <<config_vars, idx, results, outputs, now, outcome, id_log>>

\* extract_text_from_pptx raises (unreadable deck)
ExtractFails ==
    /\ pc = "extract"
    /\ results' = RecordFailure(results)
    /\ outcome' = Append(outcome, "extract")
    /\ trace' = Append(trace, <<"extract">>)
    /\ claude_response' = << >>
    /\ parsed_context' = << >>
    /\ context' = << >>
    /\ exchange' = << >>
    /\ api_result' = << >>
    /\ NextFile
    /\ UNCHANGED <<config_vars, outputs, now, id_log, requests>>

\* if not claude_response['success']: raise Exception(...)
RaiseApiError ==
    /\ results' = RecordFailure(results)
    /\ outcome' = Append(outcome, "api")
    /\ trace' = [trace EXCEPT ![idx] = @ \o StagesAfter("api")]
    /\ UNCHANGED <<file_vars, outputs, id_log>>

\* mutant: the revisions list is shared by the files of the batch and gets one
\* more entry with every file
InterpretAndRenderSharedRevisions(claude_text, render_ok) ==
    \E r \in {SingleFileResult(claude_text, render_ok, pptx_files[idx],
                               pptx_content[1].slide_count, user_name, mango_prefix,
                               env_user_name, now, hash_seed)} :
        /\ claude_response' = <<claude_text>>
        /\ parsed_context' = r.parsed
        /\ context' = [i \in 1..Len(r.handed) |->
                          [r.handed[i] EXCEPT !.revisions =
                              [k \in 1..(Len(outcome) + 1) |-> r.handed[i].revisions[1]]]]
        /\ outcome' = Append(outcome, r.stage)
        /\ trace' = [trace EXCEPT ![idx] = @ \o StagesAfter(r.stage)]
        /\ results' = IF r.stage = "ok" THEN RecordSuccess(results, r.path[1])
                      ELSE RecordFailure(results)
        /\ outputs' = outputs \cup {r.path[i] : i \in 1..Len(r.path)}
        /\ id_log' = id_log \cup r.new_ids

\* steps 3 and 4 of process_single_file on the reply text, and process_batch's
\* record of the file
InterpretAndRender(claude_text, render_ok) ==
    \E r \in {SingleFileResult(claude_text, render_ok, pptx_files[idx],
                               pptx_content[1].slide_count, user_name, mango_prefix,
                               env_user_name, now, hash_seed)} :
        /\ claude_response' = <<claude_text>>
        /\ parsed_context' = r.parsed
        /\ context' = r.handed
        /\ outcome' = Append(outcome, r.stage)
        /\ trace' = [trace EXCEPT ![idx] = @ \o StagesAfter(r.stage)]
        /\ results' = IF r.stage = "ok" THEN RecordSuccess(results, r.path[1])
                      ELSE RecordFailure(results)
        /\ outputs' = outputs \cup {r.path[i] : i \in 1..Len(r.path)}
        /\ id_log' = id_log \cup r.new_ids

\* claude_text.strip() on a content that is not a str: AttributeError
InterpretRaises ==
    /\ results' = RecordFailure(results)
    /\ outcome' = Append(outcome, "parse")
    /\ trace' = [trace EXCEPT ![idx] = @ \o StagesAfter("parse")]
    /\ UNCHANGED <<file_vars, outputs, id_log>>

\* process_presentation returns success False: process_single_file raises
ApiFailure ==
    /\ pc = "await"
    /\ RaiseApiError
    /\ NextFile
    /\ UNCHANGED <<config_vars, now, requests, client_vars>>

\* process_presentation returns the reply text: parse, complete, render
ApiSuccess(texts) ==
    /\ pc = "await"
    /\ \E claude_text \in texts, render_ok \in BOOLEAN : InterpretAndRender(claude_text, render_ok)
    /\ NextFile
    /\ UNCHANGED <<config_vars, now, requests, client_vars>>

\* the request of the current file meets one of the exchanges;
\* process_presentation classifies it and process_single_file goes on
ApiReply(exchanges) ==
    /\ pc = "await"
    /\ \E met \in exchanges, render_ok \in BOOLEAN :
          \E reply \in {ProcessPresentation(met)} :
              /\ exchange' = <<met>>
              /\ api_result' = <<reply>>
              /\ IF "success" \notin DOMAIN reply \/ ~reply.success THEN RaiseApiError
                 ELSE IF reply.content.t # "str" THEN InterpretRaises
                 ELSE InterpretAndRender(reply.content.v, render_ok)
    /\ NextFile
    /\ UNCHANGED <<config_vars, now, requests>>

\* time passes
Tick ==
    /\ pc # "done"
    /\ now < StartTime + MaxTime
    /\ now' = now + 1
    /\ UNCHANGED <<config_vars, file_vars, idx, pc, pptx_content, results, outputs, outcome, id_log,
                   requests, client_vars, deck, full_prompt, trace>>

\* a batch run; the endpoint answers with one of the sample replies
Next == ExtractOk(SampleDecks) \/ ExtractFails \/ ApiFailure \/ ApiSuccess(BatchReplyTexts) \/ Tick

Spec == Init /\ [][Next]_vars

\* a run over a single file (process_single_file under process_batch); the
\* endpoint answers with any of the reply texts
SingleInit == Init /\ Len(pptx_files) = 1

SingleNext == ExtractOk(SampleDecks) \/ ExtractFails \/ ApiFailure \/ ApiSuccess(ReplyTexts) \/ Tick

SingleSpec == SingleInit /\ [][SingleNext]_vars

\* a run over a single file, with the request followed down to the exchange
ClientNext == ExtractOk(SampleDecks) \/ ExtractFails \/ ApiReply(Exchanges) \/ Tick

ClientSpec == SingleInit /\ [][ClientNext]_vars

\* a run over a single file, for every deck and prompt
DeckInit == Built(Prompts, {DefaultTemplate}) /\ Len(pptx_files) = 1 /\ user_name = << >> /\ hash_seed = 0

DeckNext == ExtractOk(Decks) \/ ExtractFails \/ ApiFailure \/ ApiSuccess(BatchReplyTexts) \/ Tick

DeckSpec == DeckInit /\ [][DeckNext]_vars

\* batches of a processor with a user name and an identifier prefix
BatchInit == Init /\ user_name = <<"b", "k">> /\ mango_prefix = <<"M", "-">> /\ hash_seed = 0

BatchSpec == BatchInit /\ [][Next]_vars

\* batches run with any of the templates
TemplateInit ==
    Built({DefaultPrompt}, TemplatePaths) /\ user_name = << >> /\ mango_prefix = << >> /\ hash_seed = 0

TemplateSpec == TemplateInit /\ [][Next]_vars

(***************************************************************************)
(* The entry points: main (batch mode), upload_files and download_file     *)
(* (interactive mode).  An entry point checks its inputs, builds the       *)
(* DocumentProcessor, runs process_batch (the actions above) and answers.  *)
(***************************************************************************)
UploadFolder == <<"u", "p", "l", "o", "a", "d", "s", "/">>

\* the directory given with --input
InputFolder == <<"u", "/">>

PptxSuffix == <<".", "p", "p", "t", "x">>

\* werkzeug's secure_filename for ASCII names: separators become spaces,
\* "_".join(name.split()), characters outside [A-Za-z0-9_.-] are dropped,
\* dots and underscores are stripped from both ends
SecureFilename(filename) ==
    LET spaced == Strip([i \in 1..Len(filename) |-> IF filename[i] = "/" THEN " " ELSE filename[i]])
        joined == [i \in 1..Len(spaced) |->
                      IF spaced[i] \notin Whitespace THEN spaced[i]
                      ELSE IF spaced[i - 1] \in Whitespace THEN "" ELSE "_"]
        kept == SelectSeq(joined, LAMBDA c : IsCased(c) \/ IsDigit(c) \/ c \in {"_", ".", "-"})
        inner == {i \in 1..Len(kept) : kept[i] \notin {".", "_"}}
    IN  IF inner = {} THEN << >>
        ELSE SubSeq(kept, CHOOSE i \in inner : \A j \in inner : i <= j,
                          CHOOSE i \in inner : \A j \in inner : j <= i)

\* Config.CLAUDE_API_KEY = os.environ.get('CLAUDE_API_KEY', 'your-api-key-here')
ConfigKey(supplied) ==
    CASE supplied = "environment" -> EnvironmentKey
      [] supplied = "empty_env"   -> << >>
      [] OTHER                    -> PlaceholderKey

\* the names of the rendered files of a result list
OutputNames(res) == [i \in 1..Len(SelectSeq(res, Truthy)) |-> PathName(SelectSeq(res, Truthy)[i].v)]

\* the file names the runs are given; the first two have the same secure name
FileNames == {<<"q", " ", "a", ".", "p", "p", "t", "x">>, <<"q", "_", "a", ".", "p", "p", "t", "x">>,
              <<"b", ".", "p", "p", "t", "x">>, <<"n", ".", "t", "x", "t">>}

pipeline_vars == <<idx, pptx_content, file_vars, client_vars, results, outputs, now, outcome,
                   id_log, requests, deck, full_prompt, trace>>

invocation_vars == <<user_name, mango_prefix, env_user_name, hash_seed, mode, template_exists, template_path,
                     concurrent_vars,
                     credential, submitted, custom_prompt>>

\* the state when an entry point is called; the last value of submitted is
\* a form sent without a file selected; the names found in a directory are
\* different from each other
Invoked ==
    /\ custom_prompt = DefaultPrompt
    /\ deck = << >>
    /\ full_prompt = << >>
    /\ trace = << >>
    /\ folder = {}
    /\ user_name = <<"b", "k">>
    /\ mango_prefix = << >>
    /\ env_user_name = SystemUser
    /\ hash_seed = 0
    /\ mode \in {"batch", "interactive"}
    /\ template_exists \in BOOLEAN
    /\ template_path = DefaultTemplate
    /\ credential \in {"none", "empty_env", "environment", "argument"}
    /\ submitted \in {<< >>} \cup SeqsUpTo(FileNames, MaxFiles) \cup {<< << >> >>}
    /\ mode = "batch" => /\ \A i \in 1..Len(submitted) : submitted[i] # << >>
                         /\ \A i, j \in 1..Len(submitted) : i # j => submitted[i] # submitted[j]
    /\ pptx_files = << >>
    /\ api_key = << >>
    /\ uploads = {}
    /\ response = << >>
    /\ download = << >>
    /\ idx = 1
    /\ pc = "start"
    /\ pptx_content = << >>
    /\ claude_response = << >>
    /\ parsed_context = << >>
    /\ results = << >>
    /\ context = << >>
    /\ outputs = {}
    /\ now = StartTime
    /\ outcome = << >>
    /\ id_log = {}
    /\ requests = 0
    /\ exchange = << >>
    /\ api_result = << >>

\* the entry point answers without processing
Stop(status, body) ==
    /\ response' = <<[status |-> status, body |-> body]>>
    /\ pc' = "exit"
    /\ UNCHANGED <<pptx_files, api_key>>

\* DocumentProcessor(api_key, template_path, custom_prompt), which raises
\* FileNotFoundError when the template is missing, then process_batch(files)
BuildAndRun(key, files, status) ==
    IF ~template_exists THEN Stop(status, [error |-> <<"Template not found: ">>])
    ELSE /\ pptx_files' = files
         /\ api_key' = <<key>>
         /\ pc' = "extract"
         /\ UNCHANGED response

\* main() without --web, up to the call of process_batch; the answer is the
\* exit status of the process
MainStart ==
    /\ pc = "start"
    /\ mode = "batch"
    /\ LET key == IF credential = "argument" THEN ArgumentKey ELSE ConfigKey(credential)
           found == SelectSeq(submitted, LAMBDA name : EndsWith(name, PptxSuffix))
       IN  IF key = << >> THEN Stop(2, [error |-> <<"Claude API key is required">>])
           ELSE IF found = << >> THEN Stop(0, [error |-> <<"No PowerPoint files found">>])
           ELSE BuildAndRun(key, [i \in 1..Len(found) |-> InputFolder \o found[i]], 1)
    /\ UNCHANGED <<invocation_vars, pipeline_vars, uploads, download>>

\* main() after process_batch: the summary
MainFinish ==
    /\ pc = "done"
    /\ mode = "batch"
    /\ response' = <<[status |-> 0,
                      body |-> [processed |-> Len(SelectSeq(results, Truthy)),
                                total |-> Len(pptx_files),
                                output_files |-> OutputNames(results)]]>>
    /\ pc' = "exit"
    /\ UNCHANGED <<invocation_vars, pipeline_vars, pptx_files, api_key, uploads, download>>

\* upload_files up to the call of process_batch
UploadStart ==
    /\ pc = "start"
    /\ mode = "interactive"
    /\ LET valid == SelectSeq(submitted, LAMBDA name : name # << >> /\ EndsWith(name, PptxSuffix))
           uploaded_paths == [i \in 1..Len(valid) |-> UploadFolder \o SecureFilename(valid[i])]
       IN  IF submitted = << >>
           THEN Stop(400, [error |-> <<"No files uploaded">>]) /\ UNCHANGED uploads
           ELSE /\ uploads' = uploads \cup {uploaded_paths[i] : i \in 1..Len(uploaded_paths)}
                /\ IF uploaded_paths = << >>
                   THEN Stop(400, [error |-> <<"No valid PowerPoint files uploaded">>])
                   ELSE BuildAndRun(ConfigKey(credential), uploaded_paths, 500)
    /\ UNCHANGED <<invocation_vars, pipeline_vars, download>>

\* upload_files after process_batch: the uploaded files are removed one by
\* one (unlink raises FileNotFoundError on a path that is already gone),
\* then the results are returned
UploadFinish ==
    /\ pc = "done"
    /\ mode = "interactive"
    /\ LET gone == {i \in 1..Len(pptx_files) : \E j \in 1..(i - 1) : pptx_files[j] = pptx_files[i]}
           stop == IF gone = {} THEN Len(pptx_files) + 1
                   ELSE CHOOSE i \in gone : \A j \in gone : i <= j
       IN  /\ uploads' = uploads \ {pptx_files[i] : i \in 1..(stop - 1)}
           /\ response' = IF gone # {}
                          THEN <<[status |-> 500,
                                  body |-> [error |-> <<"[Errno 2] No such file or directory: ">>]]>>
                          ELSE <<[status |-> 200,
                                  body |-> [success |-> TRUE, processed |-> Len(results),
                                            output_files |-> OutputNames(results)]]>>
    /\ pc' = "exit"
    /\ UNCHANGED <<invocation_vars, pipeline_vars, pptx_files, api_key, download>>

\* the names an upload answered with
ListedNames ==
    IF response # << >> /\ "output_files" \in DOMAIN response[1].body
    THEN {response[1].body.output_files[k] : k \in 1..Len(response[1].body.output_files)}
    ELSE {}

\* the names download_file is asked for: those an upload answered with, a
\* name with no file, a path out of the output folder, and a name of which
\* secure_filename keeps nothing
DownloadNames ==
    ListedNames \cup {<<"n", "o", ".", "d", "o", "c", "x">>,
                      <<".", ".", "/", "u", "p", "l", "o", "a", "d", "s", "/", "b">>,
                      <<"_">>}

\* the status download_file answers with.  For an empty secure name filepath
\* is the output folder itself: exists() holds and send_file raises on the
\* directory, which Flask answers with 500
DownloadStatus(filename, files) ==
    IF SecureFilename(filename) = << >> THEN 500
    ELSE IF OutputFolder \o SecureFilename(filename) \in files THEN 200
    ELSE 404

\* download_file(filename)
Download ==
    /\ pc = "exit"
    /\ mode = "interactive"
    /\ \E filename \in DownloadNames :
          download' = <<[filename |-> filename, status |-> DownloadStatus(filename, outputs)]>>
    /\ UNCHANGED <<invocation_vars, pipeline_vars, pptx_files, api_key, uploads, response, pc>>

\* the reply the runs of the entry points get: the one the prompt asks for
RunReplyTexts == {JsonDump(PyDict(Member(K_title, PyStr(<<"T","i">>)) \o Member(K_mango_id, PyStr(<< >>))))}

RunNext ==
    \/ MainStart \/ UploadStart
    \/ ExtractOk(SampleDecks) \/ ExtractFails \/ ApiFailure \/ ApiSuccess(RunReplyTexts)
    \/ MainFinish \/ UploadFinish \/ Download

\* one invocation: main() or a single upload request
RunInit == Invoked /\ handlers = << >>

RunSpec == RunInit /\ [][RunNext]_vars

(***************************************************************************)
(* upload_files handled for two requests at once (the server handles each  *)
(* request in its own thread).  A request saves its files to the upload    *)
(* folder, process_batch reads them back one by one, and the clean-up      *)
(* unlinks them; a step is one file.save, one Presentation(path) or one    *)
(* path.unlink.  The content of a saved file is [owner, index]: the        *)
(* request that uploaded it and its place in that request.                 *)
(***************************************************************************)
Requests == {1, 2}

\* the file lists of a request: names that differ within the request
UploadLists == {names \in SeqsUpTo(FileNames, MaxFiles) :
                   /\ \A i \in 1..Len(names) : EndsWith(names[i], PptxSuffix)
                   /\ \A i, j \in 1..Len(names) : i # j => SecureFilename(names[i]) # SecureFilename(names[j])}

\* filepath = Config.UPLOAD_FOLDER / secure_filename(file.filename)
UploadPath(names, k) == UploadFolder \o SecureFilename(names[k])

\* what a read of the path finds: the content, or nothing
Content(files, path) ==
    IF \E f \in files : f.path = path
    THEN <<(CHOOSE f \in files : f.path = path).content>>
    ELSE << >>

\* the next file of the request, or the next phase after its last file
Advance(h, phase) ==
    IF h.at < Len(h.files) THEN [h EXCEPT !.at = @ + 1] ELSE [h EXCEPT !.at = 1, !.pc = phase]

program_vars == <<user_name, mango_prefix, env_user_name, hash_seed, mode, template_exists, template_path,
                  credential, submitted, custom_prompt, pipeline_vars, pptx_files, api_key, uploads,
                  response, download, pc>>

\* file.save(filepath): an existing file of that path is replaced
SaveUpload(r) ==
    /\ UNCHANGED program_vars
    /\ handlers[r].pc = "save"
    /\ LET h == handlers[r]
           path == UploadPath(h.files, h.at)
       IN  /\ folder' = {f \in folder : f.path # path}
                           \cup {[path |-> path, content |-> [owner |-> r, index |-> h.at]]}
           /\ handlers' = [handlers EXCEPT ![r] = Advance(h, "read")]

\* process_batch: Presentation(path) of the next path; a path that is gone
\* raises, and the file's result is None
ReadUpload(r) ==
    /\ UNCHANGED program_vars
    /\ handlers[r].pc = "read"
    /\ LET h == handlers[r]
           path == UploadPath(h.files, h.at)
       IN  handlers' = [handlers EXCEPT ![r] = Advance([h EXCEPT !.read = Append(@, Content(folder, path))],
                                                      "unlink")]
    /\ UNCHANGED folder

\* path.unlink() of the next path; FileNotFoundError on a path that is gone
\* ends the request with status 500, the last unlink with status 200
UnlinkUpload(r) ==
    /\ UNCHANGED program_vars
    /\ handlers[r].pc = "unlink"
    /\ LET h == handlers[r]
           path == UploadPath(h.files, h.at)
           found == Content(folder, path)
       IN  IF found = << >>
           THEN /\ handlers' = [handlers EXCEPT ![r] = [h EXCEPT !.pc = "done", !.status = 500]]
                /\ UNCHANGED folder
           ELSE /\ folder' = {f \in folder : f.path # path}
                /\ handlers' = [handlers EXCEPT ![r] =
                                   Advance([h EXCEPT !.deleted = Append(@, found[1]),
                                                     !.status = IF h.at = Len(h.files) THEN 200 ELSE 0],
                                           "done")]

ConcurrentInit ==
    /\ Invoked
    /\ mode = "interactive"
    /\ template_exists
    /\ credential = "environment"
    /\ submitted = << >>
    /\ handlers \in [Requests -> {[files |-> names, pc |-> "save", at |-> 1, read |-> << >>,
                                    deleted |-> << >>, status |-> 0] : names \in UploadLists}]

ConcurrentNext ==
    \/ \E r \in Requests : SaveUpload(r)
    \/ \E r \in Requests : ReadUpload(r)
    \/ \E r \in Requests : UnlinkUpload(r)

ConcurrentSpec == ConcurrentInit /\ [][ConcurrentNext]_vars

(***************************************************************************)
(* Observations used by the properties.                                    *)
(***************************************************************************)
\* json.loads of the current reply after the fence markers are removed
ReplyJson == JsonLoads(StripFences(claude_response[1]))

ReplyIsObject == ReplyJson.ok /\ ReplyJson.val.t = "dict"

ReplyIsNotJson == ~ReplyJson.ok

\* the reply supplied an identifier: a mango_id that is not empty
ReplySuppliesId == ReplyIsObject /\ Truthy(DictGet(ReplyJson.val, K_mango_id, PyNone))

\* the stage result of the file that was finished last
LastOutcome == outcome[Len(outcome)]

RecognizedFields == {"objective", "scope", "responsibilities", "definitions", "pptx_title", "mango_pptx_id"}

TemplateKeys == {"objective", "scope", "responsibilities", "definitions", "mango_pptx_id",
                 "pptx_title", "date", "user_name", "revisions"}

RevisionKeys == {"date", "version", "nature_of_changes", "changed_by"}

\* the six fields the Interpreter fills from the reply
Interpreted(c) == [f \in RecognizedFields |-> c[f]]

\* lines of a text, by a scan that does not use the code's strip/split order
RECURSIVE FirstNonBlankLine(_)
FirstNonBlankLine(text) ==
    IF text = << >> THEN << >>
    ELSE LET line == FirstLine(text)
         IN  IF Strip(line) # << >> THEN Strip(line)
             ELSE FirstNonBlankLine(DropFirst(text, Len(line) + 1))

\* the lines of a text (split at "\n")
RECURSIVE Lines(_)
Lines(text) ==
    IF FindChar(text, "\n", 1) > Len(text) THEN <<text>>
    ELSE <<FirstLine(text)>> \o Lines(DropFirst(text, FindChar(text, "\n", 1)))

\* the lines of a rendering from the header of slide n up to the next header
SectionOf(lines, n) ==
    LET headers == {i \in 1..Len(lines) : StartsWith(lines[i], <<"--- Slide ">>)}
        first == CHOOSE i \in headers : Cardinality({j \in headers : j < i}) = n - 1
        later == {j \in headers : j > first}
    IN  SubSeq(lines, first, IF later = {} THEN Len(lines)
                             ELSE (CHOOSE j \in later : \A k \in later : j <= k) - 1)

(***************************************************************************)
(* C1: process_batch returns a list as long as its input; position i holds *)
(* the output path of file i when all its stages passed and None when a    *)
(* stage raised; the loop goes on after a failure, so every file of the    *)
(* batch gets its own result.                                              *)
(***************************************************************************)
C1_BatchResultsPositional ==
    /\ Len(results) = idx - 1
    /\ Len(outcome) = idx - 1
    /\ (pc = "done") <=> (idx = Len(pptx_files) + 1)
    /\ \A i \in 1..Len(results) :
          IF outcome[i] = "ok"
          THEN /\ results[i].t = "path"
               /\ StartsWith(results[i].v, OutputFolder \o PathStem(pptx_files[i]) \o <<"_","S","O","P","_">>)
               /\ results[i].v \in outputs
          ELSE results[i] = PyNone

\* a finished batch in which a file failed and the file after it was rendered
C1_Witness ==
    /\ pc = "done"
    /\ \E k \in 1..Len(outcome) - 1 : outcome[k] # "ok" /\ outcome[k + 1] = "ok" /\ results[k + 1].t = "path"

(***************************************************************************)
(* C2: _parse_claude_response never raises, whatever the reply text: no    *)
(* file becomes an absent result because of its reply alone.               *)
(***************************************************************************)
C2_InterpreterNeverRaises == \A i \in 1..Len(outcome) : outcome[i] # "parse"

(***************************************************************************)
(* C3: in the context the Interpreter returns, every recognized field is   *)
(* present and is a string.                                                *)
(***************************************************************************)
C3_RecognizedFieldsAreStrings ==
    parsed_context # << >> =>
        \A f \in RecognizedFields :
            f \in DOMAIN parsed_context[1] /\ IsStr(parsed_context[1][f])

(***************************************************************************)
(* C4: every context handed to the renderer has every key the template     *)
(* needs, and every entry of its revisions list has the four sub-fields.   *)
(***************************************************************************)
C4_RenderedContextHasTemplateKeys ==
    context # << >> =>
        /\ TemplateKeys \subseteq DOMAIN context[1]
        /\ Len(context[1].revisions) >= 1
        /\ \A i \in 1..Len(context[1].revisions) :
              RevisionKeys \subseteq DOMAIN context[1].revisions[i]

\* a context reached the renderer through the fallback and was rendered
C4_Witness == context # << >> /\ ReplyIsNotJson /\ LastOutcome = "ok"

(***************************************************************************)
(* C5: a JSON object text wrapped in a code fence is interpreted to the    *)
(* same objective, scope, responsibilities, definitions, title and         *)
(* identifier as the unwrapped text.                                       *)
(***************************************************************************)
C5_FencedObjectParsesAsUnwrapped ==
    claude_response # << >> =>
        \A kind \in WrapKinds, text \in ObjectTexts :
            claude_response[1] = Wrap(kind, text) =>
                /\ parsed_context # << >>
                /\ ~ParseClaudeResponse(text, user_name, env_user_name, now).raised
                /\ Interpreted(parsed_context[1])
                      = Interpreted(ParseClaudeResponse(text, user_name, env_user_name, now).context)

\* a fenced reply whose fields were read from the object inside the fence
C5_Witness ==
    /\ claude_response # << >>
    /\ \E kind \in WrapKinds, text \in ObjectTexts : claude_response[1] = Wrap(kind, text)
    /\ parsed_context # << >>
    /\ parsed_context[1].pptx_title = PyStr(<<"P", " ", "t">>)
    /\ parsed_context[1].objective = PyStr(<<"O", "b">>)

(***************************************************************************)
(* C6: when the reply is not JSON, the title is the first non-blank line   *)
(* of the raw text (trimmed), the objective is the manual-review message,  *)
(* scope and definitions keep their defaults, and the file is not          *)
(* abandoned: its context is handed to the renderer and, when the renderer *)
(* succeeds, the result is the output path.                                *)
(***************************************************************************)
C6_ParseFailureFallsBack ==
    (claude_response # << >> /\ ReplyIsNotJson) =>
        /\ parsed_context # << >>
        /\ parsed_context[1].pptx_title = PyStr(FirstNonBlankLine(claude_response[1]))
        /\ parsed_context[1].objective = PyStr(ManualReviewMessage)
        /\ parsed_context[1].scope = PyStr(DefaultScope)
        /\ parsed_context[1].definitions = PyStr(DefaultDefinitions)
        /\ context # << >>
        /\ context[1].objective = PyStr(ManualReviewMessage)
        /\ LastOutcome \in {"ok", "render"}
        /\ LastOutcome = "ok" => results[Len(results)].t = "path"

\* prose with a blank first line was turned into a rendered document
C6_Witness ==
    /\ claude_response # << >>
    /\ ReplyIsNotJson
    /\ Strip(FirstLine(claude_response[1])) = << >>
    /\ FirstNonBlankLine(claude_response[1]) # << >>
    /\ LastOutcome = "ok"
    /\ results[Len(results)].t = "path"

(***************************************************************************)
(* C7: when the reply is a JSON object, objective and responsibilities     *)
(* come from the reply, scope and definitions from the reply or their      *)
(* defaults, the title from pptx_title when both title keys are present    *)
(* and from the one present otherwise, and an identifier the reply         *)
(* supplies (a mango_id that is not empty) is the identifier of the        *)
(* context, also after the identifier synthesis.                           *)
(***************************************************************************)
C7_ParsedObjectMapsFields ==
    (claude_response # << >> /\ ReplyIsObject) =>
        LET obj == ReplyJson.val
            c == parsed_context[1]
        IN  /\ parsed_context # << >>
            /\ c.objective = (IF HasKey(obj, K_objective) THEN DictGet(obj, K_objective, PyNone) ELSE PyStr(<< >>))
            /\ c.responsibilities = (IF HasKey(obj, K_responsibilities)
                                     THEN DictGet(obj, K_responsibilities, PyNone) ELSE PyStr(<< >>))
            /\ c.scope = (IF HasKey(obj, K_scope) THEN DictGet(obj, K_scope, PyNone) ELSE PyStr(DefaultScope))
            /\ c.definitions = (IF HasKey(obj, K_definitions)
                                THEN DictGet(obj, K_definitions, PyNone) ELSE PyStr(DefaultDefinitions))
            /\ c.pptx_title = (IF HasKey(obj, K_pptx_title) THEN DictGet(obj, K_pptx_title, PyNone)
                               ELSE IF HasKey(obj, K_title) THEN DictGet(obj, K_title, PyNone)
                               ELSE PyStr(<< >>))
            /\ ReplySuppliesId =>
                  /\ c.mango_pptx_id = DictGet(obj, K_mango_id, PyNone)
                  /\ context[1].mango_pptx_id = DictGet(obj, K_mango_id, PyNone)

\* both title keys present with different titles, and an identifier supplied
\* while a prefix is configured
C7_Witness ==
    /\ claude_response # << >>
    /\ ReplyIsObject
    /\ HasKey(ReplyJson.val, K_title) /\ HasKey(ReplyJson.val, K_pptx_title)
    /\ DictGet(ReplyJson.val, K_title, PyNone) # DictGet(ReplyJson.val, K_pptx_title, PyNone)
    /\ ReplySuppliesId
    /\ mango_prefix # << >>
    /\ context # << >>

(***************************************************************************)
(* C8: with an identifier prefix configured and no identifier supplied by  *)
(* the reply (parsed or not), the identifier of the rendered context is    *)
(* the synthesized one: a non-empty string that begins with the prefix;    *)
(* and every context rendered under a prefix has a non-empty identifier.   *)
(***************************************************************************)
C8_PrefixGivesIdentifier ==
    (context # << >> /\ mango_prefix # << >>) =>
        /\ Truthy(context[1].mango_pptx_id)
        /\ ~ReplySuppliesId =>
              /\ IsStr(context[1].mango_pptx_id)
              /\ context[1].mango_pptx_id.v # << >>
              /\ StartsWith(context[1].mango_pptx_id.v, mango_prefix)
              /\ Len(context[1].mango_pptx_id.v) > Len(mango_prefix)
              /\ \E e \in id_log : e.id = context[1].mango_pptx_id.v

\* identifiers were synthesized after a parsed reply and after an unparsable one
C8_Witness ==
    /\ context # << >>
    /\ mango_prefix # << >>
    /\ ReplyIsNotJson
    /\ StartsWith(context[1].mango_pptx_id.v, mango_prefix)

(***************************************************************************)
(* C9 as stated: for the same file name, two calls made at different times *)
(* get different synthesized identifiers.                                  *)
(***************************************************************************)
C9_DifferentTimesDifferentIds ==
    \A a \in id_log, b \in id_log :
        (a.file = b.file /\ a.at # b.at) => a.id # b.id

(***************************************************************************)
(* C9 amended: for the same file name, two calls whose one-second          *)
(* timestamps (strftime %Y%m%d%H%M%S) differ get different synthesized     *)
(* identifiers.                                                            *)
(***************************************************************************)
C9_DifferentSecondsDifferentIds ==
    \A a \in id_log, b \in id_log :
        (a.file = b.file /\ a.stamp # b.stamp) => a.id # b.id

\* the same file name got identifiers in two different seconds
C9_Witness ==
    \E a \in id_log, b \in id_log : a.file = b.file /\ a.stamp # b.stamp /\ a.id # b.id

(***************************************************************************)
(* C10: the title derived from the file name is used only if no title was  *)
(* obtained: a non-empty title under pptx_title or, failing that, under    *)
(* title, or a non-empty first line of an unparsable reply, is the final   *)
(* title; and the final title is never empty.                              *)
(***************************************************************************)
C10_ObtainedTitleIsFinal ==
    context # << >> =>
        LET final == context[1].pptx_title
            pt == DictGet(ReplyJson.val, K_pptx_title, PyStr(<< >>))
            ti == DictGet(ReplyJson.val, K_title, PyStr(<< >>))
        IN  /\ Truthy(final)
            /\ (ReplyIsObject /\ IsStr(pt) /\ Truthy(pt)) => final = pt
            /\ (ReplyIsObject /\ ~(IsStr(pt) /\ Truthy(pt)) /\ IsStr(ti) /\ Truthy(ti)) => final = ti
            /\ (ReplyIsNotJson /\ FirstNonBlankLine(claude_response[1]) # << >>) =>
                  final = PyStr(FirstNonBlankLine(claude_response[1]))

(***************************************************************************)
(* C11: process_presentation posts once per file and never again, and      *)
(* whatever the request meets (any status, any body, an exception) it      *)
(* returns a dict with a success flag: with content and usage when the     *)
(* flag is set, with an error when it is not.  It never raises.            *)
(***************************************************************************)
C11_OneRequestTaggedResult ==
    /\ requests = Cardinality({i \in 1..Len(outcome) : outcome[i] # "extract"})
                    + (IF pc = "await" THEN 1 ELSE 0)
    /\ (api_result = << >>) <=> (exchange = << >>)
    /\ \A i \in 1..Len(api_result) :
          /\ "success" \in DOMAIN api_result[i]
          /\ api_result[i].success \in BOOLEAN
          /\ IF api_result[i].success
             THEN {"content", "usage"} \subseteq DOMAIN api_result[i]
             ELSE "error" \in DOMAIN api_result[i]

\* a 200 answer whose body is a JSON list was classified as a failure after
\* the one request of the run
C11_Witness ==
    /\ pc = "done"
    /\ requests = 1
    /\ exchange # << >>
    /\ exchange[1].kind = "response"
    /\ exchange[1].status = 200
    /\ JsonLoads(exchange[1].body).ok
    /\ JsonLoads(exchange[1].body).val.t = "list"
    /\ api_result[1].success = FALSE

(***************************************************************************)
(* C12: process_presentation classifies a failed exchange: a connection    *)
(* error or a timeout gives a network failure; a status other than 200     *)
(* with a JSON body that carries error.message gives that message; a       *)
(* status other than 200 with a body that is not JSON and starts like      *)
(* markup gives the authentication failure; a 200 whose body has no        *)
(* content[0].text gives the malformed-response failure, with an excerpt   *)
(* of the raw body in it.                                                  *)
(***************************************************************************)
C12_FailuresClassified ==
    \A i \in 1..Len(exchange) :
        LET met == exchange[i]
            reply == api_result[i]
            data == JsonLoads(met.body)
            error == DictGet(data.val, K_error, PyNone)
        IN  /\ met.kind \in {"ClientError", "TimeoutError"} =>
                  /\ ~reply.success
                  /\ StartsWith(reply.error.v, NetworkErrorPrefix)
            /\ (/\ met.kind = "response" /\ met.status # 200
                /\ data.ok /\ data.val.t = "dict"
                /\ error.t = "dict" /\ HasKey(error, K_message)) =>
                  /\ ~reply.success
                  /\ reply.error = DictGet(error, K_message, PyNone)
            /\ (/\ met.kind = "response" /\ met.status # 200
                /\ ~data.ok /\ StartsWith(met.body, <<"<">>)) =>
                  /\ ~reply.success
                  /\ reply.error = PyStr(AuthFailedText)
            /\ (/\ met.kind = "response" /\ met.status = 200
                /\ (~data.ok
                    \/ GetKey(GetFirst(GetKey(Value(data.val), K_content)), K_text).exc # "")) =>
                  /\ ~reply.success
                  /\ reply.error = PyStr(InvalidFormatText)
                  /\ "details" \in DOMAIN reply
                  /\ reply.details = PyStr(Excerpt(met.body))

(***************************************************************************)
(* C13: a missing template and a missing credential stop the run before    *)
(* any file is processed, in batch and in interactive mode: nothing is     *)
(* extracted, no request is made, nothing is rendered.                     *)
(***************************************************************************)
C13_ConfigFailureAborts ==
    (~template_exists \/ credential = "none") =>
        /\ pc \in {"start", "exit"}
        /\ outcome = << >>
        /\ requests = 0
        /\ outputs = {}

(***************************************************************************)
(* C14: extract_text_from_pptx returns one record per slide, in slide      *)
(* order, numbered from 1, with slide_count the number of slides; the      *)
(* title of a record is the text of the slide's title placeholder, and     *)
(* empty when the slide has none; its content is the texts of the other    *)
(* shapes that have a text, in document order: the title placeholder has   *)
(* no entry in it and no entry is empty.                                   *)
(***************************************************************************)
C14_ExtractionKeepsSlides ==
    \A f \in 1..Len(pptx_content) :
        LET content == pptx_content[f]
            slides == deck[f]
        IN  /\ content.filename = PathName(pptx_files[idx])
            /\ content.slide_count = Len(slides)
            /\ Len(content.slides) = Len(slides)
            /\ \A n \in 1..Len(slides) :
                  LET record == content.slides[n]
                      others == SelectSeq(slides[n], LAMBDA shape : shape.kind = "text" /\ shape.text # << >>)
                  IN  /\ record.slide_number = n
                      /\ \A i \in 1..Len(slides[n]) :
                            slides[n][i].kind = "title" => record.title = slides[n][i].text
                      /\ (\A i \in 1..Len(slides[n]) : slides[n][i].kind # "title") => record.title = << >>
                      /\ record.content = [k \in 1..Len(others) |-> others[k].text]
                      /\ \A k \in 1..Len(record.content) : record.content[k] # << >>

\* a deck of two slides was extracted: the first without a title, the second
\* with a title placeholder between a text box that repeats the title and a
\* picture
C14_Witness ==
    /\ pc = "await"
    /\ Len(deck[1]) = 2
    /\ TitleIndex(deck[1][1]) = 0
    /\ pptx_content[1].slides[1].content = << <<"b">>, <<"a">> >>
    /\ TitleIndex(deck[1][2]) = 2
    /\ pptx_content[1].slides[2].title = <<"T">>
    /\ pptx_content[1].slides[2].content = << <<"T">>, <<"a">> >>

(***************************************************************************)
(* C15: the prompt of the request is the instruction prompt, the           *)
(* separator, then the rendering of the extracted deck: the file name, the *)
(* slide count, and for each slide in order a section under its own        *)
(* header, with a title line exactly when the title is not empty and one   *)
(* bullet line for each content text; the extracted content is the same    *)
(* after formatting.                                                       *)
(***************************************************************************)
C15_PromptRendersDeck ==
    \A f \in 1..Len(full_prompt) :
        LET content == pptx_content[f]
            lines == Lines(DropFirst(full_prompt[f], Len(custom_prompt \o Separator)))
        IN  /\ StartsWith(full_prompt[f], custom_prompt \o Separator)
            /\ content = ExtractText(pptx_files[idx], deck[f])
            /\ lines[1] = <<"Presentation: ">> \o content.filename
            /\ lines[2] = <<"Total Slides: ">> \o NatStr(content.slide_count)
            /\ lines[3] = << >>
            /\ SelectSeq(lines, LAMBDA line : StartsWith(line, <<"--- Slide ">>))
                  = [n \in 1..content.slide_count |-> <<"--- Slide ">> \o NatStr(n) \o <<" ---">>]
            /\ \A n \in 1..content.slide_count :
                  LET section == SectionOf(lines, n)
                      slide == content.slides[n]
                  IN  /\ SelectSeq(section, LAMBDA line : StartsWith(line, <<"Title: ">>))
                            = IF slide.title # << >> THEN << <<"Title: ">> \o slide.title >> ELSE << >>
                      /\ SelectSeq(section, LAMBDA line : StartsWith(line, Bullet))
                            = [k \in 1..Len(slide.content) |-> Bullet \o FirstLine(slide.content[k])]

\* the prompt of a deck of two slides, one with a title and two content
\* texts, one with an empty title
C15_Witness ==
    /\ pc = "await"
    /\ full_prompt # << >>
    /\ custom_prompt # DefaultPrompt
    /\ pptx_content[1].slide_count = 2
    /\ pptx_content[1].slides[1].title # << >>
    /\ Len(pptx_content[1].slides[1].content) = 2
    /\ pptx_content[1].slides[2].title = << >>
    /\ pptx_content[1].slides[2].content # << >>

\* the output name made of a stem and a day
DatedName(stem, day) ==
    OutputFolder \o stem \o <<"_", "S", "O", "P", "_">> \o ZeroPad(NatStr(day), 8) \o <<".", "d", "o", "c", "x">>

\* a process_single_file call that returned a path wrote that one file, named
\* after the stem of its source and the day of the call (a file of that name
\* written earlier is replaced, the other files stay)
SuccessWritesDatedFile ==
    (Len(results') = Len(results) + 1 /\ results'[Len(results')] # PyNone) =>
        /\ results'[Len(results')].v = DatedName(PathStem(pptx_files[idx]), Day(now))
        /\ outputs' = outputs \cup {DatedName(PathStem(pptx_files[idx]), Day(now))}

(***************************************************************************)
(* C16: every successful process_single_file call writes exactly one file, *)
(* whose name is made of the stem of the source and the day of the run;    *)
(* the same source on the same day gives the same file again; the template *)
(* file is never among the files written.                                  *)
(***************************************************************************)
C16_OneDatedOutputTemplateKept ==
    [][SuccessWritesDatedFile /\ template_path \notin outputs']_vars

(***************************************************************************)
(* C17: a second generate_document call with the same context, at any      *)
(* time, hands the renderer a context with the same keys and the same      *)
(* value under every key but generated_date; within the same second the    *)
(* whole context is the same.                                              *)
(***************************************************************************)
C17_RenderingDeterministic ==
    \A f \in 1..Len(context) :
        \A t \in StartTime..(StartTime + MaxTime) :
            LET again == RenderContext(context[f], t)
            IN  /\ DOMAIN again = DOMAIN context[f]
                /\ \A key \in DOMAIN again \ {"generated_date"} : again[key] = context[f][key]
                /\ Second(t) = Second(now) => again.generated_date = PyStr(StrfGenerated(now))
                /\ again.generated_date = context[f].generated_date => again = context[f]

\* a document was rendered, and a second call one second later would hand
\* over another generated_date
C17_Witness ==
    /\ outcome = <<"ok">>
    /\ context # << >>
    /\ \E t \in StartTime..(StartTime + MaxTime) :
          RenderContext(context[1], t).generated_date # context[1].generated_date

\* the answer of upload_files has one of the three shapes: status 400 with
\* an error exactly when no named .pptx file was submitted, status 500 with
\* an error, or status 200 with the success flag, the count and the names
UploadAnswerStructured ==
    (mode = "interactive" /\ response # << >>) =>
        LET answer == response[1]
            valid == SelectSeq(submitted, LAMBDA name : name # << >> /\ EndsWith(name, PptxSuffix))
        IN  /\ answer.status \in {200, 400, 500}
            /\ answer.status = 400 <=> valid = << >>
            /\ answer.status \in {400, 500} => DOMAIN answer.body = {"error"}
            /\ answer.status = 200 =>
                  /\ DOMAIN answer.body = {"success", "processed", "output_files"}
                  /\ answer.body.success
                  /\ answer.body.processed = Len(valid)
                  /\ Len(answer.body.output_files) = Cardinality({i \in 1..Len(outcome) : outcome[i] = "ok"})
                  /\ \A k \in 1..Len(answer.body.output_files) :
                        OutputFolder \o answer.body.output_files[k] \in outputs

\* a listed name is downloaded with status 200
ListedNamesDownload ==
    \A d \in 1..Len(download) :
        download[d].filename \in ListedNames => download[d].status = 200

(***************************************************************************)
(* C18: upload_files answers with status 400 and an error when no file or  *)
(* no valid deck was uploaded, with status 500 and an error when           *)
(* processing raised, and otherwise with the success flag, the processed   *)
(* count and the output names; download_file answers 200 for every name of *)
(* that list, and 404 for a name under which the output folder holds no    *)
(* file.                                                                   *)
(***************************************************************************)
C18_UploadAndDownloadAnswers ==
    /\ UploadAnswerStructured
    /\ ListedNamesDownload
    /\ \A d \in 1..Len(download) :
          OutputFolder \o download[d].filename \notin outputs => download[d].status = 404

\* the places of the fence markers in a text
FencePositions(text) == {i \in 1..(Len(text) - 2) : SubSeq(text, i, i + 2) = Fence}

\* the text, once trimmed, has no marker but one at its start and one at its end
FencedOnce(text) == FencePositions(Strip(text)) \subseteq {1, Len(Strip(text)) - 2}

\* the stripping step leaves a text without markers as it is, but for the
\* whitespace around it, and the value of a JSON text the same
StripKeepsCleanText(text) ==
    /\ FencePositions(text) = {} => StripFences(text) = Strip(text)
    /\ JsonLoads(text).ok => JsonLoads(StripFences(text)) = JsonLoads(text)

(***************************************************************************)
(* C19 as stated: the stripping step leaves a text without fence markers   *)
(* as it is, clean JSON keeps its parsed value, and for every reply text   *)
(* the step applied to the stripped text returns it unchanged.             *)
(***************************************************************************)
C19_StrippingIdempotent ==
    \A f \in 1..Len(claude_response) :
        /\ StripKeepsCleanText(claude_response[f])
        /\ StripFences(StripFences(claude_response[f])) = StripFences(claude_response[f])

(***************************************************************************)
(* C19 amended: the stripping step leaves a text without fence markers     *)
(* as it is, clean JSON keeps its parsed value, and the step applied to    *)
(* the stripped text returns it unchanged for every reply that has no      *)
(* marker other than one at its start and one at its end.                  *)
(***************************************************************************)
C19_StrippingIdempotentOnOneFence ==
    \A f \in 1..Len(claude_response) :
        /\ StripKeepsCleanText(claude_response[f])
        /\ FencedOnce(claude_response[f]) =>
              StripFences(StripFences(claude_response[f])) = StripFences(claude_response[f])

\* a reply in a fence, with whitespace around the fence and inside it, was
\* stripped to the JSON object it holds
C19_Witness ==
    /\ claude_response # << >>
    /\ \E text \in ObjectTexts : claude_response[1] = Wrap("spaced", text)
                                   /\ StripFences(claude_response[1]) = text
    /\ FencedOnce(claude_response[1])
    /\ parsed_context # << >>

\* the one-way order of the stages
StageOrder == <<"extract", "format", "call", "interpret", "render">>

\* the stages of every file are an initial part of the order (in order, each
\* at most once); the renderer was entered only for a file whose reply was a
\* success and was interpreted; a file whose extraction or request failed
\* stopped there and has the result None
StagesOneWay ==
    /\ Len(trace) \in {Len(outcome), Len(outcome) + 1}
    /\ Len(results) = Len(outcome)
    /\ \A i \in 1..Len(trace) : trace[i] = SubSeq(StageOrder, 1, Len(trace[i]))
    /\ \A i \in 1..Len(outcome) :
          /\ (\E k \in 1..Len(trace[i]) : trace[i][k] = "render") <=> outcome[i] \in {"ok", "render"}
          /\ outcome[i] = "extract" => trace[i] = <<"extract">> /\ results[i] = PyNone
          /\ outcome[i] = "api" => trace[i] = <<"extract", "format", "call">> /\ results[i] = PyNone

\* the step that ends a file whose extraction or request failed writes no
\* document
FailureWritesNothing ==
    (Len(outcome') = Len(outcome) + 1 /\ outcome'[Len(outcome')] \in {"extract", "api"}) =>
        outputs' = outputs

(***************************************************************************)
(* C20: within a file the stages are entered in the order extract, format, *)
(* call, interpret, render, each at most once; the renderer is entered     *)
(* only after a successful reply; when the extraction or the request       *)
(* fails, no document is written for the file and its result is None.      *)
(***************************************************************************)
C20_StagesOneWay == []StagesOneWay /\ [][FailureWritesNothing]_vars

\* a batch of two files: the request of the first failed, the second went
\* through all five stages and its document is the only one written
C20_Witness ==
    /\ outcome = <<"api", "ok">>
    /\ trace = <<RequestStages, StageOrder>>
    /\ results[1] = PyNone
    /\ outputs = {results[2].v}

\* the requests sent and not yet answered: those sent, less one for every
\* finished file that got as far as its request
InFlight == requests - Cardinality({i \in 1..Len(outcome) : outcome[i] # "extract"})

(***************************************************************************)
(* C21: the files of a batch are processed one at a time, in input order:  *)
(* the file being processed is the one after the files whose results are   *)
(* recorded, no later file has entered a stage, and at most one request is *)
(* in flight.                                                              *)
(***************************************************************************)
C21_OneFileAtATime ==
    /\ Len(results) <= Len(pptx_files)
    /\ idx = Len(results) + 1
    /\ Len(trace) \in {Len(results), Len(results) + 1}
    /\ Len(trace) = Len(results) + 1 => pc = "await"
    /\ InFlight \in {0, 1}
    /\ InFlight = 1 <=> pc = "await"

\* the request of the second file of a batch is in flight and the result of
\* the first is recorded
C21_Witness ==
    /\ Len(pptx_files) = 2
    /\ Len(results) = 1
    /\ Len(trace) = 2
    /\ trace[2] = RequestStages
    /\ InFlight = 1
    /\ requests = 2

(***************************************************************************)
(* C22: when two upload requests are handled at once, every file a request *)
(* reads back has the content that request saved, its clean-up deletes     *)
(* only files it saved, and no request ends with an error.                 *)
(***************************************************************************)
C22_ConcurrentUploadsApart ==
    \A r \in DOMAIN handlers :
        /\ \A k \in 1..Len(handlers[r].read) :
              handlers[r].read[k] = <<[owner |-> r, index |-> k]>>
        /\ \A k \in 1..Len(handlers[r].deleted) : handlers[r].deleted[k].owner = r
        /\ handlers[r].status # 500

\* the configuration of the processor stays as it was built
ConfigurationKept == UNCHANGED <<api_key, template_path, custom_prompt, user_name, mango_prefix>>

\* the context handed to the renderer for the file that ends with this step
\* is the one its own path, deck and reply give at the time of the step with
\* the configuration, whatever the files before it did; its revisions list
\* has the one seeded entry
ContextBuiltFresh ==
    (Len(outcome') = Len(outcome) + 1 /\ outcome'[Len(outcome')] \in {"ok", "render"}) =>
        LET own == ParseClaudeResponse(claude_response'[1], user_name, env_user_name, now).context
            full == CompleteContext(own, pptx_files[idx], pptx_content[1].slide_count, user_name,
                                    mango_prefix, now, hash_seed)
        IN  /\ context' = <<RenderContext(full, now)>>
            /\ Len(context'[1].revisions) = 1

(***************************************************************************)
(* C23: processing a file leaves the api key, the template path, the       *)
(* prompt, the user name and the identifier prefix of the processor as     *)
(* they were, and the context of each file is built from that file's own   *)
(* path, deck and reply and the configuration, with a fresh revisions      *)
(* list: it does not depend on the other files of the batch.               *)
(***************************************************************************)
C23_NoStateAcrossFiles == [][ConfigurationKept /\ ContextBuiltFresh]_vars

\* both files of a batch were rendered, to different paths, and the context
\* handed last names the second file
C23_Witness ==
    /\ Len(outcome) = 2
    /\ outcome[1] = "ok"
    /\ outcome[2] = "ok"
    /\ pptx_files[1] # pptx_files[2]
    /\ results[1] # results[2]
    /\ context # << >>
    /\ context[1].source_file = PyStr(PathName(pptx_files[2]))
    /\ Len(context[1].revisions) = 1

(***************************************************************************)
(* C24: in every success response of upload_files, processed is the        *)
(* number of files for which a document was produced: the length of        *)
(* output_files.                                                           *)
(***************************************************************************)
C24_ProcessedCountsOutputs ==
    (mode = "interactive" /\ response # << >> /\ response[1].status = 200) =>
        response[1].body.processed = Len(response[1].body.output_files)

(***************************************************************************)
(* C25: when an upload request has been answered, whatever the answer, no  *)
(* file the request saved is left in the upload folder.                    *)
(***************************************************************************)
C25_UploadsRemoved ==
    (mode = "interactive" /\ response # << >>) => uploads = {}

(***************************************************************************)
(* C26: the paths an upload request saved and hands to process_batch hold  *)
(* no path twice, and a request whose files were all rendered is answered  *)
(* with the success response.                                              *)
(***************************************************************************)
C26_NoUploadPathTwice ==
    mode = "interactive" =>
        /\ \A i, j \in 1..Len(pptx_files) : i # j => pptx_files[i] # pptx_files[j]
        /\ (response # << >> /\ Len(outcome) = Len(pptx_files) /\ Len(outcome) > 0
               /\ \A i \in 1..Len(outcome) : outcome[i] = "ok")
             => response[1].status = 200

\* the names of the input files of the batch, in the order of pptx_files
InputNames ==
    SelectSeq(submitted, LAMBDA name : name # << >> /\ EndsWith(name, PptxSuffix))

(***************************************************************************)
(* C27: within one batch, two different input files never give the same    *)
(* output path: the entries of the result list that are not None are       *)
(* pairwise different when the input files are.                            *)
(***************************************************************************)
C27_DifferentInputsDifferentOutputs ==
    \A i, j \in 1..Len(results) :
        (i < j /\ InputNames[i] # InputNames[j] /\ Truthy(results[i]) /\ Truthy(results[j]))
            => results[i] # results[j]

(***************************************************************************)
(* C28: in every context handed to the renderer the revisions list has one *)
(* entry, with version '1.0' and nature_of_changes 'Initial Release', and   *)
(* the changed_by of that entry is the user_name of the context, whatever  *)
(* the configured user name is.                                            *)
(***************************************************************************)
C28_UserNameIsChangedBy ==
    context # << >> =>
        /\ Len(context[1].revisions) = 1
        /\ context[1].revisions[1].version = PyStr(InitialVersion)
        /\ context[1].revisions[1].nature_of_changes = PyStr(InitialRelease)
        /\ context[1].user_name = context[1].revisions[1].changed_by

\* needle in haystack
Contains(haystack, needle) ==
    \E i \in 1..(Len(haystack) - Len(needle) + 1) :
        SubSeq(haystack, i, i + Len(needle) - 1) = needle

(***************************************************************************)
(* C29: the procedure_text of every context handed to the renderer holds   *)
(* the values of mango_pptx_id and pptx_title of that same context, as     *)
(* they are after identifier synthesis and title fallback.                 *)
(***************************************************************************)
C29_ProcedureTextNamesIdAndTitle ==
    context # << >> =>
        /\ context[1].mango_pptx_id.t = "str" =>
               Contains(context[1].procedure_text.v, context[1].mango_pptx_id.v)
        /\ context[1].pptx_title.t = "str" =>
               Contains(context[1].procedure_text.v, context[1].pptx_title.v)

\* Config.MANGO_ID_PREFIX, with the default of the environment variable
MANGO_ID_PREFIX == <<"M", "A", "N", "G", "O", "-">>

(***************************************************************************)
(* C30: every document rendered by a command-line batch run whose reply    *)
(* supplied no identifier carries an identifier that is not empty and      *)
(* begins with Config.MANGO_ID_PREFIX.                                     *)
(***************************************************************************)
C30_BatchAppliesPrefix ==
    (mode = "batch" /\ context # << >> /\ outcome[Len(outcome)] = "ok"
        /\ ~Truthy(ContextGet(parsed_context[1], "mango_pptx_id"))) =>
        /\ context[1].mango_pptx_id.t = "str"
        /\ context[1].mango_pptx_id.v # << >>
        /\ StartsWith(context[1].mango_pptx_id.v, MANGO_ID_PREFIX)

=============================================================================
